---- MODULE Spec2Model ----
(***************************************************************************)
(* The agent collaboration engine: the execution driver                    *)
(* (commands/executions.rs), the Collaboration State                       *)
(* (orchestration/state.rs) and the three orchestration modes              *)
(* (orchestration/pipeline.rs, debate.rs, roundtable.rs).                  *)
(*                                                                         *)
(* Granularity: one action per stretch of code between two suspension      *)
(* points (an awaited provider turn, the join of the Roundtable fan-out).  *)
(* Storage calls are taken to succeed.                                     *)
(***************************************************************************)
EXTENDS Integers, Sequences, FiniteSets, TLC

(***************************************************************************)
(* u32 arithmetic.  A number is kept as two 16-bit limbs <<hi, lo>>, its   *)
(* value being hi * 2^16 + lo; a u32 has hi < 2^16, a wide (mathematical)  *)
(* number any hi.                                                          *)
(***************************************************************************)
U32Bits == 32

Limb == 2 ^ (U32Bits \div 2)

Zero == <<0, 0>>

U32Max == <<Limb - 1, Limb - 1>>

ToWide(n) == <<n \div Limb, n % Limb>>

WideAdd(a, b) ==
    LET lo == a[2] + b[2]
    IN  <<a[1] + b[1] + (lo \div Limb), lo % Limb>>

WideLess(a, b) == a[1] < b[1] \/ (a[1] = b[1] /\ a[2] < b[2])

IsU32(w) == w[1] < Limb

Clamp32(w) == IF IsU32(w) THEN w ELSE U32Max

\* u32::saturating_add
saturating_add(a, b) == Clamp32(WideAdd(a, b))

(***************************************************************************)
(* Bounds and input sets.                                                  *)
(***************************************************************************)
\* start_execution / followup_execution calls one execution is followed through
MaxInvocations == 2

\* provider failures injected in one execution
MaxFailures == 1

\* tool calls one agent turn executes at most
MaxToolCalls == 1

\* run_debate(agents, &mut state, &mut emit, 3)
DebateMaxRounds == 3

\* state.recent_opinions_json(6)
RecentLimit == 6

Members == <<"a1", "a2", "a3", "a4">>

AgentIds == {Members[i] : i \in 1..Len(Members)}

\* the active team members in position order
Teams == {SubSeq(Members, 1, n) : n \in 1..Len(Members)}

\* the teams a mode is run with: a Roundtable fans out over all but the last member
TeamsOf(m) ==
    IF m = "roundtable" THEN {tm \in Teams : Len(tm) < Len(Members)} ELSE Teams

\* the calls one execution is followed through: the widest Roundtable is followed
\* through its first call only
InvocationBudget(m, tm) ==
    IF m = "roundtable" /\ Len(tm) = Len(Members) - 1 THEN 1 ELSE MaxInvocations

Modes == {"pipeline", "debate", "roundtable"}

\* ExecutionCreate.input: a topic, or nothing yet
InitialInputs == {"", "remote"}

\* the input of a follow-up
FollowupInputs == {"budget"}

NoAgent == "none"

\* what one provider reports for a whole turn: usage, executed tool calls, and
\* whether its text holds one of the closing phrases of should_continue
Profiles ==
    << [input_tokens |-> Zero, output_tokens |-> Zero, tools |-> 0, closing |-> FALSE],
       [input_tokens |-> ToWide(120), output_tokens |-> ToWide(45),
        tools |-> MaxToolCalls, closing |-> TRUE],
       [input_tokens |-> <<Limb \div 2, 0>>, output_tokens |-> <<Limb \div 2, 0>>,
        tools |-> 0, closing |-> FALSE] >>

\* the assignments of providers to agents that are tried: every rotation
Providers ==
    { [a \in AgentIds |->
         Profiles[(((CHOOSE i \in 1..Len(Members) : Members[i] = a) + k) % Len(Profiles)) + 1]]
      : k \in 0..(Len(Profiles) - 1) }

(***************************************************************************)
(* Texts.  A text is known by who wrote it and what its author was shown;  *)
(* a provider is a deterministic function of its prompt.                   *)
(***************************************************************************)
\* a prompt's topic part: the raw topic, a Pipeline hand-off, a Debate prompt
TopicText(kind, text, stage, by, pro, con) ==
    [kind |-> kind, text |-> text, stage |-> stage, by |-> by, pro |-> pro, con |-> con]

RawTopic(text) == TopicText("raw", text, 0, NoAgent, <<>>, <<>>)

\* the text of an opinion: its author, the instruction ("initial" or "response"),
\* the topic part, the peers' opinions shown and the number of own earlier opinions
Content(author, instr, topic, saw, own, closing) ==
    [author |-> author, instr |-> instr, topic |-> topic, saw |-> saw, own |-> own,
     closing |-> closing]

NoContent == Content(NoAgent, "", RawTopic(""), <<>>, 0, FALSE)

\* false iff the text holds one of the closing phrases
should_continue(content) == ~content.closing

\* how an opinion appears in a peer context
OpRef(agent_id, round, phase) == [agent_id |-> agent_id, round |-> round, phase |-> phase]

(***************************************************************************)
(* Strings whose bytes matter (a reply's text, the JSON text of a tool     *)
(* call's arguments and of its output): a sequence of runs of characters   *)
(* of one kind, "ws" (white space, 1 byte), "ascii" (1 byte), "cjk"        *)
(* (3 bytes in UTF-8) and "closing" (a closing phrase, 4 cjk characters).  *)
(***************************************************************************)
Run(kind, n) == [kind |-> kind, n |-> n]

\* the bytes of one character of a kind
Width(kind) == IF kind \in {"cjk", "closing"} THEN 3 ELSE 1

\* the characters a run stands for
Chars(run) == IF run.kind = "closing" THEN 4 * run.n ELSE run.n

\* str.len(): the bytes of the string, counted run by run
ByteLen(str) ==
    Cardinality(UNION {{<<i, byte>> : byte \in 1..(Width(str[i].kind) * Chars(str[i]))} :
                         i \in 1..Len(str)})

\* str.is_char_boundary(idx)
is_char_boundary(str, idx) ==
    \/ idx = 0
    \/ \E i \in 1..Len(str) :
         LET from == ByteLen(SubSeq(str, 1, i - 1))
             w == Width(str[i].kind)
         IN  /\ from < idx
             /\ idx <= from + w * Chars(str[i])
             /\ (idx - from) % w = 0

RECURSIVE BytePrefix(_, _)
\* &str[..idx], for idx on a character boundary
BytePrefix(str, idx) ==
    IF idx = 0 \/ str = <<>> THEN <<>>
    ELSE LET w == Width(Head(str).kind)
             bytes == w * Chars(Head(str))
         IN  IF bytes <= idx
             THEN <<Head(str)>> \o BytePrefix(Tail(str), idx - bytes)
             ELSE <<Run(IF Head(str).kind = "closing" THEN "cjk" ELSE Head(str).kind,
                        idx \div w)>>

\* the preview length of emit_tool_traces
PreviewMax == 200

\* tool_events::truncate: &s[..max] panics when max is inside a character
truncate(str, max) ==
    IF ByteLen(str) <= max THEN [panic |-> FALSE, text |-> str]
    ELSE IF is_char_boundary(str, max)
    THEN [panic |-> FALSE, text |-> BytePrefix(str, max) \o <<Run("cjk", 1)>>]
    ELSE [panic |-> TRUE, text |-> <<>>]

\* str.trim()
trim(str) ==
    LET solid == {i \in 1..Len(str) : str[i].kind # "ws"}
    IN  IF solid = {} THEN <<>>
        ELSE SubSeq(str, CHOOSE i \in solid : \A j \in solid : i <= j,
                         CHOOSE i \in solid : \A j \in solid : j <= i)

\* should_continue on a string: false iff it holds a closing phrase
has_no_closing_phrase(str) == \A i \in 1..Len(str) : str[i].kind # "closing"

(***************************************************************************)
(* Tool calls and the Executor (tools/definition.rs, tools/executor.rs).   *)
(* A path is known by its text and by what the sandbox guard and the file  *)
(* system make of it.                                                      *)
(***************************************************************************)
Path(name, text, escapes) == [name |-> name, text |-> text, escapes |-> escapes]

\* call.arguments: an optional "path" and an optional "content"
Arguments(path, content) == [path |-> path, content |-> content]

ToolCall(id, name, arguments, fate) ==
    [id |-> id, name |-> name, arguments |-> arguments, fate |-> fate]

\* arguments.to_string(): {"content":"..","path":".."}, the keys in sorted order
JsonText(arguments) ==
    LET content == IF arguments.content = <<>> THEN <<>>
                   ELSE <<Run("ascii", 11)>> \o arguments.content[1] \o <<Run("ascii", 1)>>
        path == IF arguments.path = <<>> THEN <<>>
                ELSE <<Run("ascii", 8)>> \o arguments.path[1].text \o <<Run("ascii", 1)>>
        comma == IF content # <<>> /\ path # <<>> THEN <<Run("ascii", 1)>> ELSE <<>>
    IN  <<Run("ascii", 1)>> \o content \o comma \o path \o <<Run("ascii", 1)>>

\* the JSON text of {}
EmptyObject == <<Run("ascii", 2)>>

\* the files of the workspace at the start: name -> content
SeedFiles ==
    [name \in {"notes.md", "out.md"} |->
       IF name = "notes.md" THEN <<Run("ascii", 40)>> ELSE <<>>]

\* the arms of execute_blocking that are followed
Catalog == {"read_file", "write_file"}

\* as_str(args, key)
as_str(arguments, key) == IF key = "path" THEN arguments.path ELSE arguments.content

\* execute_blocking: the result of the operation and the files it leaves
execute_blocking(fsys, tool_name, arguments) ==
    LET path == as_str(arguments, "path")
        failed(error) == [ok |-> FALSE, output |-> EmptyObject, error |-> error, fsys |-> fsys]
    IN  IF tool_name \notin Catalog THEN failed("Unknown tool")
        ELSE IF path = <<>> THEN failed("Missing path")
        ELSE IF path[1].escapes THEN failed("Parent dir '..' is not allowed")
        ELSE IF tool_name = "read_file"
        THEN IF path[1].name \notin DOMAIN fsys THEN failed("No such file")
             ELSE [ok |-> TRUE,
                   output |-> <<Run("ascii", 12)>> \o fsys[path[1].name] \o <<Run("ascii", 40)>>,
                   error |-> "", fsys |-> fsys]
        ELSE LET content == IF as_str(arguments, "content") = <<>> THEN <<>>
                            ELSE as_str(arguments, "content")[1]
             IN  [ok |-> TRUE, output |-> <<Run("ascii", 30)>>, error |-> "",
                  fsys |-> [name \in DOMAIN fsys \cup {path[1].name} |->
                              IF name = path[1].name THEN content ELSE fsys[name]]]

ToolResult(tool_call_id, name, ok, output, error) ==
    [tool_call_id |-> tool_call_id, name |-> name, ok |-> ok, output |-> output,
     error |-> error]

\* the ToolResult `execute` builds from the outcome of its call
execute_result(call, ok, output, error) ==
    ToolResult(call.id, call.name, ok, IF ok THEN output ELSE EmptyObject, error)

ToolTrace(call, result) == [call |-> call, result |-> result]

(***************************************************************************)
(* Collaboration State (orchestration/state.rs).                           *)
(***************************************************************************)
Opinion(agent_id, content, round, phase, wants_to_continue, input_tokens, output_tokens) ==
    [agent_id |-> agent_id, content |-> content, round |-> round, phase |-> phase,
     wants_to_continue |-> wants_to_continue,
     input_tokens |-> input_tokens, output_tokens |-> output_tokens]

\* OrchestrationState::default(), which is also what serde makes of {}
DefaultState ==
    [topic |-> "", round |-> 0, phase |-> "initializing", opinions |-> <<>>,
     summary |-> NoContent, agent_wants_continue |-> [a \in AgentIds |-> "absent"],
     tokens_used |-> Zero]

start_new_round(st) == [st EXCEPT !.round = @ + 1]

\* add_opinion that counts the input tokens only
add_opinion_input_only(st, op) ==
    [st EXCEPT
       !.tokens_used = saturating_add(@, op.input_tokens),
       !.agent_wants_continue[op.agent_id] = IF op.wants_to_continue THEN "true" ELSE "false",
       !.opinions = Append(@, op)]

add_opinion(st, op) ==
    [st EXCEPT
       !.tokens_used = saturating_add(@, saturating_add(op.input_tokens, op.output_tokens)),
       !.agent_wants_continue[op.agent_id] = IF op.wants_to_continue THEN "true" ELSE "false",
       !.opinions = Append(@, op)]

recent_opinions_json(st, limit) ==
    LET n == Len(st.opinions)
        start == IF n > limit THEN n - limit ELSE 0
    IN  [i \in 1..(n - start) |->
           LET op == st.opinions[start + i] IN OpRef(op.agent_id, op.round, op.phase)]

\* serde_json::to_value(&state) and from_value(..).unwrap_or_default()
EmptyJson == [empty |-> TRUE]

to_value(st) ==
    [topic |-> st.topic, round |-> st.round, phase |-> st.phase, opinions |-> st.opinions,
     summary |-> st.summary, agent_wants_continue |-> st.agent_wants_continue,
     tokens_used |-> st.tokens_used]

from_value(v) ==
    IF v = EmptyJson THEN DefaultState
    ELSE [topic |-> v.topic, round |-> v.round, phase |-> v.phase, opinions |-> v.opinions,
          summary |-> v.summary, agent_wants_continue |-> v.agent_wants_continue,
          tokens_used |-> v.tokens_used]

(***************************************************************************)
(* The event sink and the message store, as the driver's emit closure      *)
(* sees them: the persisted messages, run_round's msg_seq, the events      *)
(* forwarded to the window and run_execution's event_seq.                  *)
(***************************************************************************)
EventData(phase, round, has_tokens, input_tokens, output_tokens, tool_call_id) ==
    [phase |-> phase, round |-> round, has_tokens |-> has_tokens,
     input_tokens |-> input_tokens, output_tokens |-> output_tokens,
     tool_call_id |-> tool_call_id]

\* a JSON payload with no token counts and no tool call
PlainData(phase, round) == EventData(phase, round, FALSE, Zero, Zero, 0)

\* `as i32` of a count read back from JSON with as_i64
as_i32(w) ==
    IF w[1] < Limb \div 2
    THEN [neg |-> FALSE, mag |-> w]
    ELSE [neg |-> TRUE,
          mag |-> IF w[2] = 0 THEN <<Limb - w[1], 0>> ELSE <<Limb - 1 - w[1], Limb - w[2]>>]

\* a value worked out once and handed on: a `let` of the code
Bind(value, Rest(_)) == CHOOSE result \in {Rest(v) : v \in {value}} : TRUE

emit_event(snk, event_type, data, agent_id) ==
    [snk EXCEPT
       !.event_seq = @ + 1,
       !.forwarded = Append(@, [sequence |-> snk.event_seq + 1, event_type |-> event_type,
                                agent_id |-> agent_id, phase |-> data.phase,
                                round |-> data.round, tool_call_id |-> data.tool_call_id])]

\* the closure `emit` of run_round: an opinion is persisted as a message first
emit(snk, event_type, data, agent_id) ==
    IF event_type = "opinion"
    THEN emit_event(
           [snk EXCEPT
              !.messages = Append(@, [sequence |-> snk.msg_seq, round |-> data.round,
                                      phase |-> data.phase, sender_id |-> agent_id,
                                      input_tokens |-> as_i32(IF data.has_tokens THEN data.input_tokens ELSE Zero),
                                      output_tokens |-> as_i32(IF data.has_tokens THEN data.output_tokens ELSE Zero)]),
              !.msg_seq = @ + 1],
           event_type, data, agent_id)
    ELSE emit_event(snk, event_type, data, agent_id)

\* the previews "CALL name args" / "OK name output" of a trace: does truncate panic
call_preview_panics(trace) == truncate(JsonText(trace.call.arguments), PreviewMax).panic

result_preview_panics(trace) == truncate(trace.result.output, PreviewMax).panic

\* the events the loop of emit_tool_traces passes to emit before it returns or
\* panics: per trace its tool_call, then its tool_result; a preview that panics
\* ends the loop before the event it was cut for
traced_events(traces) ==
    LET panics == {k \in 1..Len(traces) :
                     call_preview_panics(traces[k]) \/ result_preview_panics(traces[k])}
        stop == IF panics = {} THEN Len(traces) + 1
                ELSE CHOOSE k \in panics : \A j \in panics : k <= j
        half == IF stop <= Len(traces) /\ ~call_preview_panics(traces[stop]) THEN 1 ELSE 0
    IN  [j \in 1..(2 * (stop - 1) + half) |->
           IF j % 2 = 1
           THEN [event_type |-> "tool_call", tool_call_id |-> traces[(j + 1) \div 2].call.id]
           ELSE [event_type |-> "tool_result",
                 tool_call_id |-> traces[j \div 2].result.tool_call_id]]

\* what emit_tool_traces has forwarded when it returns, or when it panics: emit
\* hands each of these events to emit_event
emit_tool_traces(snk, traces, agent_id, round) ==
    LET events == traced_events(traces)
    IN  [snk EXCEPT
           !.event_seq = @ + Len(events),
           !.forwarded = @ \o [j \in 1..Len(events) |->
                                 [sequence |-> snk.event_seq + j,
                                  event_type |-> events[j].event_type,
                                  agent_id |-> agent_id, phase |-> events[j].event_type,
                                  round |-> round,
                                  tool_call_id |-> events[j].tool_call_id]]]

\* emit_tool_traces does not return: a preview is cut inside a character
emit_tool_traces_panics(traces) ==
    \E k \in 1..Len(traces) : call_preview_panics(traces[k]) \/ result_preview_panics(traces[k])

RECURSIVE MaxSequence(_)
MaxSequence(msgs) ==
    IF msgs = <<>> THEN 0
    ELSE LET m == MaxSequence(Tail(msgs))
         IN  IF Head(msgs).sequence > m THEN Head(msgs).sequence ELSE m

\* SELECT MAX(sequence) + 1, 1 when there is no message
execution_messages_next_sequence(msgs) == IF msgs = <<>> THEN 1 ELSE MaxSequence(msgs) + 1

(***************************************************************************)
(* State.                                                                  *)
(***************************************************************************)
VARIABLES
    team,            \* the team's active members, in position order
    mode,            \* team.collaboration_mode
    provider,        \* agent id -> what its LLM capability answers
    execution,       \* the stored ExecutionRecord
    sink,            \* messages, msg_seq, forwarded, event_seq
    pc,              \* where the driver task of the execution stands
    invocations,     \* start_execution / followup_execution calls still to be made
    failures,        \* provider failures so far
    topic,           \* run_round's topic
    target,          \* run_round's target_agent_id
    state,           \* the OrchestrationState of the round in flight
    agents,          \* the AgentInstances handed to the mode, in order
    own_opinions,    \* AgentInstance.opinions of each instance
    mode_result,     \* what the mode returned: "none", "ok", "err"
    pl,              \* run_pipeline's locals
    db,              \* run_debate's locals
    rt,              \* run_roundtable's locals
    completion_log,  \* history: the fan-out tasks in the order they completed
    instance,        \* the AgentInstance whose turn is followed step by step
    turn,            \* the locals of its generate_opinion_with_tools
    workers,         \* the spawn_blocking tasks of the Executor, and its call log
    fsys,            \* the files of the workspace
    sandbox,         \* the workspace directory as the file tools see it, and their last call
    tasks            \* the commands on one execution that run side by side, with their locals

\* what a turn that is followed step by step works on
turnVars == <<instance, turn, workers, fsys, sandbox, tasks>>

vars ==
    <<team, mode, provider, execution, sink, pc, invocations, failures, topic, target,
      state, agents, own_opinions, mode_result, pl, db, rt, completion_log, turnVars>>

config == <<team, mode, provider>>

PlIdle == [idx |-> 0, original_topic |-> "", current_input |-> RawTopic(""), out_agents |-> <<>>]

DbIdle ==
    [pro |-> <<>>, con |-> <<>>, judge |-> NoAgent, pro_args |-> <<>>, last |-> <<>>,
     round_num |-> 0, i |-> 0]

RtIdle ==
    [tasks |-> {}, ready |-> <<>>, completed_agents |-> <<>>, round_one |-> <<>>]

\* no turn is followed step by step
NoInstance ==
    [id |-> NoAgent, max_tool_iterations |-> 0, llm |-> [head |-> <<>>, tail |-> "final"],
     configured |-> <<>>]

TurnIdle == [pc |-> "idle"]

NoWorkers == [tasks |-> <<>>, log |-> <<>>]

\* no workspace directory is looked at
Unmounted == [disk |-> <<>>, calls |-> 0, last |-> <<>>]

\* no command is followed on its own
NoTasks == <<>>

Init ==
    /\ mode \in Modes
    /\ team \in TeamsOf(mode)
    /\ provider \in Providers
    /\ \E input \in InitialInputs, llm \in BOOLEAN :
         \* create_execution
         execution = [status |-> "pending", initial_input |-> input, llm |-> llm,
                      shared_state |-> EmptyJson, current_round |-> 0,
                      tokens_used |-> Zero, error_message |-> FALSE]
    /\ sink = [messages |-> <<>>, msg_seq |-> 0, forwarded |-> <<>>, event_seq |-> 0]
    /\ pc = "idle"
    /\ invocations = InvocationBudget(mode, team)
    /\ failures = 0
    /\ topic = ""
    /\ target = NoAgent
    /\ state = DefaultState
    /\ agents = <<>>
    /\ own_opinions = [a \in AgentIds |-> <<>>]
    /\ mode_result = "none"
    /\ pl = PlIdle
    /\ db = DbIdle
    /\ rt = RtIdle
    /\ completion_log = <<>>
    /\ instance = NoInstance
    /\ turn = TurnIdle
    /\ workers = NoWorkers
    /\ fsys = SeedFiles
    /\ sandbox = Unmounted
    /\ tasks = NoTasks

modeVars == <<state, agents, own_opinions, mode_result, pl, db, rt, completion_log, failures>>

(***************************************************************************)
(* The execution driver (commands/executions.rs).                          *)
(***************************************************************************)
\* start_execution -> run_execution(.., None, None), up to the call of run_round
StartExecution ==
    /\ pc = "idle"
    /\ invocations > 0
    /\ invocations' = invocations - 1
    /\ LET snk == [sink EXCEPT !.event_seq = 0]
       IN  IF execution.status # "pending"
           THEN UNCHANGED <<execution, sink, pc, topic, target>>
           ELSE IF execution.initial_input = ""
           THEN /\ execution' = [execution EXCEPT !.status = "paused"]
                /\ sink' = emit_event(snk, "status", PlainData("awaiting_user_input", 0), NoAgent)
                /\ UNCHANGED <<pc, topic, target>>
           ELSE /\ execution' = [execution EXCEPT !.status = "running"]
                /\ sink' = emit_event(snk, "status", PlainData("running", 0), NoAgent)
                /\ topic' = execution.initial_input
                /\ target' = NoAgent
                /\ pc' = "run_round"
    /\ UNCHANGED <<config, turnVars, modeVars>>

\* a followup_execution that is stopped by a running execution only
FollowupExecutionUnlessRunning(input, target_agent_id) ==
    /\ pc = "idle"
    /\ invocations > 0
    /\ invocations' = invocations - 1
    /\ LET snk == [sink EXCEPT !.event_seq = 0]
       IN  IF execution.status = "running"
           THEN /\ sink' = emit_event(snk, "error", PlainData("", 0), NoAgent)
                /\ UNCHANGED <<execution, pc, topic, target>>
           ELSE /\ execution' = [execution EXCEPT !.status = "running"]
                /\ sink' = emit_event(snk, "status", PlainData("running", 0), NoAgent)
                /\ topic' = input
                /\ target' = target_agent_id
                /\ pc' = "run_round"
    /\ UNCHANGED <<config, turnVars, modeVars>>

\* followup_execution -> run_execution(.., Some(input), target), up to run_round
FollowupExecution(input, target_agent_id) ==
    /\ pc = "idle"
    /\ invocations > 0
    /\ invocations' = invocations - 1
    /\ LET snk == [sink EXCEPT !.event_seq = 0]
       IN  IF execution.status \notin {"paused", "completed"}
           THEN /\ sink' = emit_event(snk, "error", PlainData("", 0), NoAgent)
                /\ UNCHANGED <<execution, pc, topic, target>>
           ELSE /\ execution' = [execution EXCEPT !.status = "running"]
                /\ sink' = emit_event(snk, "status", PlainData("running", 0), NoAgent)
                /\ topic' = input
                /\ target' = target_agent_id
                /\ pc' = "run_round"
    /\ UNCHANGED <<config, turnVars, modeVars>>

\* build_agent_instances: the active members, only the target when one is given
build_agent_instances(members, target_agent_id) ==
    SelectSeq(members, LAMBDA a : target_agent_id = NoAgent \/ a = target_agent_id)

\* a run_round that looks for the LLM configuration only after it has begun the
\* round and persisted the user message
RunRoundBeginChecksLate ==
    /\ pc = "run_round"
    /\ LET st == [start_new_round(from_value(execution.shared_state)) EXCEPT !.topic = topic]
           first == execution_messages_next_sequence(sink.messages)
           user == [sequence |-> first, round |-> st.round, phase |-> "user",
                    sender_id |-> NoAgent, input_tokens |-> as_i32(Zero),
                    output_tokens |-> as_i32(Zero)]
           snk == emit_event([sink EXCEPT !.messages = Append(@, user), !.msg_seq = first + 1],
                             "user", PlainData("user", st.round), NoAgent)
           instances == build_agent_instances(team, target)
       IN  /\ state' = st
           /\ IF instances = <<>>
              THEN /\ pc' = "error"
                   /\ UNCHANGED <<sink, agents, own_opinions, execution>>
              ELSE IF ~execution.llm
              THEN /\ sink' = emit_event(snk, "error", PlainData("", 0), NoAgent)
                   /\ execution' = [execution EXCEPT !.status = "failed",
                                                     !.error_message = TRUE]
                   /\ pc' = "idle"
                   /\ UNCHANGED <<agents, own_opinions>>
              ELSE /\ sink' = snk
                   /\ agents' = instances
                   /\ own_opinions' = [a \in AgentIds |-> <<>>]
                   /\ pc' = mode
                   /\ UNCHANGED execution
    /\ mode_result' = "none"
    /\ UNCHANGED <<config, turnVars, invocations, topic, target, pl, db, rt, completion_log, failures>>

\* run_round, from its entry to the call of the mode
RunRoundBegin ==
    /\ pc = "run_round"
    /\ IF ~execution.llm
       THEN /\ sink' = emit_event(sink, "error", PlainData("", 0), NoAgent)
            /\ execution' = [execution EXCEPT !.status = "failed", !.error_message = TRUE]
            /\ pc' = "idle"
            /\ UNCHANGED <<state, agents, own_opinions>>
       ELSE LET st == [start_new_round(from_value(execution.shared_state)) EXCEPT !.topic = topic]
                instances == build_agent_instances(team, target)
            IN  /\ state' = st
                /\ IF instances = <<>>
                   THEN \* "No agents in team"
                        /\ pc' = "error"
                        /\ UNCHANGED <<sink, agents, own_opinions>>
                   ELSE LET first == execution_messages_next_sequence(sink.messages)
                            user == [sequence |-> first, round |-> st.round, phase |-> "user",
                                     sender_id |-> NoAgent, input_tokens |-> as_i32(Zero),
                                     output_tokens |-> as_i32(Zero)]
                            snk == [sink EXCEPT !.messages = Append(@, user),
                                                !.msg_seq = first + 1]
                        IN  /\ sink' = emit_event(snk, "user", PlainData("user", st.round), NoAgent)
                            /\ agents' = instances
                            /\ own_opinions' = [a \in AgentIds |-> <<>>]
                            /\ pc' = mode
                /\ UNCHANGED execution
    /\ mode_result' = "none"
    /\ UNCHANGED <<config, turnVars, invocations, topic, target, pl, db, rt, completion_log, failures>>

\* run_round after the mode returned Ok: save the execution state
SaveExecution ==
    /\ pc = "save"
    /\ execution' = [execution EXCEPT !.status = "completed",
                                      !.current_round = state.round,
                                      !.tokens_used = state.tokens_used,
                                      !.shared_state = to_value(state)]
    /\ sink' = emit_event(sink, "status", PlainData("completed", 0), NoAgent)
    /\ pc' = "idle"
    /\ UNCHANGED <<config, turnVars, invocations, topic, target, modeVars>>

\* the spawned task of start_execution / followup_execution when run_execution failed
ExecutionFailed ==
    /\ pc = "error"
    /\ execution' = [execution EXCEPT !.status = "failed", !.error_message = TRUE]
    /\ sink' = emit_event([sink EXCEPT !.event_seq = 0], "error", PlainData("", 0), NoAgent)
    /\ pc' = "idle"
    /\ UNCHANGED <<config, turnVars, invocations, topic, target, modeVars>>

(***************************************************************************)
(* One agent turn (agents/instance.rs), as the modes see it: the turn      *)
(* either fails with the provider's error or returns the response and the  *)
(* traces of the tool calls it executed.                                   *)
(***************************************************************************)
\* the k-th tool call of a turn of these providers, a short read that succeeds
PlainTrace(k) ==
    LET call == ToolCall(k, "read_file",
                         Arguments(<<Path("notes.md", <<Run("ascii", 8)>>, FALSE)>>, <<>>),
                         "runs")
        done == execute_blocking(SeedFiles, call.name, call.arguments)
    IN  ToolTrace(call, execute_result(call, done.ok, done.output, done.error))

TurnOk(agent_id, instr, topic_text, saw, own) ==
    LET content == Content(agent_id, instr, topic_text, saw, Len(own), provider[agent_id].closing)
    IN  [ok |-> TRUE, agent_id |-> agent_id, instr |-> instr, content |-> content,
         wants_to_continue |-> should_continue(content),
         input_tokens |-> provider[agent_id].input_tokens,
         output_tokens |-> provider[agent_id].output_tokens,
         traces |-> [k \in 1..provider[agent_id].tools |-> PlainTrace(k)]]

TurnErr(agent_id, instr) ==
    [ok |-> FALSE, agent_id |-> agent_id, instr |-> instr, content |-> NoContent,
     wants_to_continue |-> TRUE, input_tokens |-> Zero, output_tokens |-> Zero,
     traces |-> <<>>]

\* AgentInstance::generate_opinion_with_tools; ok is the provider's verdict
generate_opinion_with_tools(agent_id, instr, topic_text, saw, own, ok) ==
    IF ok THEN TurnOk(agent_id, instr, topic_text, saw, own) ELSE TurnErr(agent_id, instr)

\* the provider answers, or fails while the failure budget lasts
ProviderVerdicts == IF failures < MaxFailures THEN {TRUE, FALSE} ELSE {TRUE}

(***************************************************************************)
(* What the sequential modes do with a turn that returned Ok: emit its     *)
(* tool traces, add its opinion, emit the opinion event.                   *)
(***************************************************************************)
\* a turn whose opinion is added to the state while its event is left for later
record_turn_unemitted(st, snk, res, phase, wants_to_continue, data) ==
    LET snk1 == emit_tool_traces(snk, res.traces, res.agent_id, st.round)
        opinion == Opinion(res.agent_id, res.content, st.round, phase, wants_to_continue,
                           res.input_tokens, res.output_tokens)
    IN  [state |-> add_opinion(st, opinion), sink |-> snk1]

record_turn(st, snk, res, phase, wants_to_continue, data) ==
    LET snk1 == emit_tool_traces(snk, res.traces, res.agent_id, st.round)
        opinion == Opinion(res.agent_id, res.content, st.round, phase, wants_to_continue,
                           res.input_tokens, res.output_tokens)
    IN  [state |-> add_opinion(st, opinion),
         sink |-> emit(snk1, "opinion", data, res.agent_id)]

(***************************************************************************)
(* Pipeline (orchestration/pipeline.rs).                                   *)
(***************************************************************************)
\* a relay that hands the original topic on and drops the output of the stage
handoff_topic_only(original_topic, stage, agent_id) == RawTopic(original_topic)

\* the next stage's input: the original topic and the output of this stage, which
\* is known by its stage number and its author
handoff(original_topic, stage, agent_id) ==
    TopicText("handoff", original_topic, stage, agent_id, <<>>, <<>>)

\* run_round sets the phase, then run_pipeline up to its loop
PipelineBegin ==
    /\ pc = "pipeline"
    /\ state' = [state EXCEPT !.phase = "sequential"]
    /\ sink' = emit(sink, "status", PlainData("pipeline", 0), NoAgent)
    /\ pl' = [idx |-> 0, original_topic |-> state.topic,
              current_input |-> RawTopic(state.topic), out_agents |-> <<>>]
    /\ pc' = "pl_loop"
    /\ UNCHANGED <<config, turnVars, execution, invocations, failures, topic, target, agents,
                   own_opinions, mode_result, db, rt, completion_log>>

\* the head of one loop turn, up to the await of the stage's agent
PipelineStageBegin ==
    /\ pc = "pl_loop"
    /\ pl.idx < Len(agents)
    /\ sink' = emit(sink, "status", PlainData("pipeline", 0), agents[pl.idx + 1])
    /\ pc' = "pl_turn"
    /\ UNCHANGED <<config, turnVars, execution, invocations, failures, topic, target, state, agents,
                   own_opinions, mode_result, pl, db, rt, completion_log>>

\* a relay that skips a stage whose turn failed and goes on with the next one
PipelineStageSkips(ok) ==
    /\ pc = "pl_turn"
    /\ LET agent_id == agents[pl.idx + 1]
           stage == pl.idx + 1
           phase == "stage_" \o ToString(stage)
           res == generate_opinion_with_tools(agent_id, "initial", pl.current_input, <<>>,
                                              own_opinions[agent_id], ok)
           out == record_turn(state, sink, res, phase, TRUE, PlainData(phase, state.round))
       IN  IF ~ok
           THEN /\ pl' = [pl EXCEPT !.idx = stage]
                /\ UNCHANGED <<state, sink, own_opinions>>
           ELSE /\ state' = out.state
                /\ sink' = out.sink
                /\ own_opinions' = [own_opinions EXCEPT ![agent_id] = Append(@, res.content)]
                /\ pl' = [pl EXCEPT
                            !.idx = stage,
                            !.current_input = handoff(pl.original_topic, stage, agent_id),
                            !.out_agents = Append(@, agent_id)]
    /\ pc' = "pl_loop"
    /\ failures' = IF ok THEN failures ELSE failures + 1
    /\ UNCHANGED <<config, turnVars, execution, invocations, topic, target, agents, db, rt,
                   completion_log, mode_result>>

\* the stage's turn returned
PipelineStage(ok) ==
    /\ pc = "pl_turn"
    /\ LET agent_id == agents[pl.idx + 1]
           stage == pl.idx + 1
           phase == "stage_" \o ToString(stage)
           res == generate_opinion_with_tools(agent_id, "initial", pl.current_input, <<>>,
                                              own_opinions[agent_id], ok)
           out == record_turn(state, sink, res, phase, TRUE, PlainData(phase, state.round))
       IN  IF ~ok
           THEN /\ mode_result' = "err"
                /\ pc' = "error"
                /\ UNCHANGED <<state, sink, pl, own_opinions>>
           ELSE /\ state' = out.state
                /\ sink' = out.sink
                /\ own_opinions' = [own_opinions EXCEPT ![agent_id] = Append(@, res.content)]
                /\ pl' = [pl EXCEPT
                            !.idx = stage,
                            !.current_input = handoff(pl.original_topic, stage, agent_id),
                            !.out_agents = Append(@, agent_id)]
                /\ pc' = "pl_loop"
                /\ UNCHANGED mode_result
    /\ failures' = IF ok THEN failures ELSE failures + 1
    /\ UNCHANGED <<config, turnVars, execution, invocations, topic, target, agents, db, rt,
                   completion_log>>

\* a Pipeline that leaves the phase Paused when its loop is over
PipelineEndPaused ==
    /\ pc = "pl_loop"
    /\ pl.idx = Len(agents)
    /\ state' = [state EXCEPT !.phase = "paused"]
    /\ agents' = pl.out_agents
    /\ mode_result' = "ok"
    /\ pl' = PlIdle
    /\ pc' = "save"
    /\ UNCHANGED <<config, turnVars, execution, sink, invocations, failures, topic, target,
                   own_opinions, db, rt, completion_log>>

\* the loop is over: Ok(out_agents)
PipelineEnd ==
    /\ pc = "pl_loop"
    /\ pl.idx = Len(agents)
    /\ state' = [state EXCEPT !.phase = "completed"]
    /\ agents' = pl.out_agents
    /\ mode_result' = "ok"
    /\ pl' = PlIdle
    /\ pc' = "save"
    /\ UNCHANGED <<config, turnVars, execution, sink, invocations, failures, topic, target,
                   own_opinions, db, rt, completion_log>>

Pipeline ==
    \/ PipelineBegin
    \/ PipelineStageBegin
    \/ \E ok \in ProviderVerdicts : PipelineStage(ok)
    \/ PipelineEnd

(***************************************************************************)
(* Debate (orchestration/debate.rs).                                       *)
(***************************************************************************)
Reverse(seq) == [i \in 1..Len(seq) |-> seq[Len(seq) + 1 - i]]

\* a peer context taken from the oldest opinions: take(n) without rev()
last_statements_oldest(st, n) ==
    LET taken == SubSeq(st.opinions, 1, IF Len(st.opinions) > n THEN n ELSE Len(st.opinions))
    IN  [i \in 1..Len(taken) |-> OpRef(taken[i].agent_id, taken[i].round, taken[i].phase)]

\* state.opinions.iter().rev().take(n), as the peer context `last`
last_statements(st, n) ==
    LET len == Len(st.opinions)
        from == IF len > n THEN len - n + 1 ELSE 1
        taken == Reverse(SubSeq(st.opinions, from, len))
    IN  [i \in 1..Len(taken) |-> OpRef(taken[i].agent_id, taken[i].round, taken[i].phase)]

\* o.phase.starts_with("pro_")
IsProPhase(phase) == phase \in {"pro_opening", "pro_rebuttal"}

\* o.phase.starts_with("con_")
IsConPhase(phase) == phase \in {"con_opening", "con_rebuttal"}

\* a transcript of the opening statements only
transcript_openings(st, side) ==
    LET picked == SelectSeq(st.opinions, LAMBDA o : o.phase = side \o "_opening")
    IN  [i \in 1..Len(picked) |-> OpRef(picked[i].agent_id, picked[i].round, picked[i].phase)]

\* the pro_text / con_text of the verdict prompt
transcript(st, side) ==
    LET picked == SelectSeq(st.opinions,
                            LAMBDA o : IF side = "pro" THEN IsProPhase(o.phase)
                                                       ELSE IsConPhase(o.phase))
    IN  [i \in 1..Len(picked) |-> OpRef(picked[i].agent_id, picked[i].round, picked[i].phase)]

\* the round number the debate starts from
debate_first_round(st) == 1

\* a role assignment that gives the larger half of the remaining agents to pro
assign_roles_pro_heavy(ags) ==
    LET rest == SubSeq(ags, 1, Len(ags) - 1)
        mid == (Len(rest) + 1) \div 2
    IN  [judge |-> ags[Len(ags)], pro |-> SubSeq(rest, 1, mid),
         con |-> SubSeq(rest, mid + 1, Len(rest))]

\* agents.pop() is the judge; the others are split at agents.len() / 2
assign_roles(ags) ==
    LET rest == SubSeq(ags, 1, Len(ags) - 1)
        mid == Len(rest) \div 2
    IN  [judge |-> ags[Len(ags)], pro |-> SubSeq(rest, 1, mid),
         con |-> SubSeq(rest, mid + 1, Len(rest))]

\* from the entry of run_debate to the first await
DebateBegin ==
    /\ pc = "debate"
    /\ IF agents = <<>>
       THEN /\ state' = [state EXCEPT !.phase = "initializing"]
            /\ mode_result' = "ok"
            /\ pc' = "save"
            /\ UNCHANGED <<sink, db>>
       ELSE LET roles == assign_roles(agents)
            IN  /\ db' = [pro |-> roles.pro, con |-> roles.con, judge |-> roles.judge,
                          pro_args |-> <<>>, last |-> <<>>, round_num |-> 0, i |-> 1]
                /\ sink' = emit(sink, "status", PlainData("", 0), NoAgent)
                /\ state' = [state EXCEPT !.round = debate_first_round(state),
                                          !.phase = "sequential"]
                /\ pc' = "db_pro_opening"
                /\ UNCHANGED mode_result
    /\ UNCHANGED <<config, turnVars, execution, invocations, failures, topic, target, agents,
                   own_opinions, pl, rt, completion_log>>

\* rebuttal rounds in which the con team speaks first
stage_team_con_first(stage) ==
    CASE stage = "db_pro_opening" -> db.pro
      [] stage = "db_con_opening" -> db.con
      [] stage = "db_pro_rebuttal" -> db.con
      [] stage = "db_con_rebuttal" -> db.pro

\* the members whose turns a stage of the debate runs
stage_team(stage) == IF stage \in {"db_pro_opening", "db_pro_rebuttal"} THEN db.pro ELSE db.con

\* the phase tag of the opinions of a stage
stage_phase(stage) ==
    CASE stage = "db_pro_opening" -> "pro_opening"
      [] stage = "db_con_opening" -> "con_opening"
      [] stage = "db_pro_rebuttal" -> "pro_rebuttal"
      [] stage = "db_con_rebuttal" -> "con_rebuttal"

DebateStages == {"db_pro_opening", "db_con_opening", "db_pro_rebuttal", "db_con_rebuttal"}

\* the turn of one team member returned
DebateTurn(ok) ==
    /\ pc \in DebateStages
    /\ db.i <= Len(stage_team(pc))
    /\ LET agent_id == stage_team(pc)[db.i]
           instr == IF pc = "db_pro_opening" THEN "initial" ELSE "response"
           prompt == CASE pc = "db_pro_opening" ->
                            TopicText("pro_prompt", state.topic, 0, NoAgent, <<>>, <<>>)
                       [] pc = "db_con_opening" ->
                            TopicText("con_prompt", state.topic, 0, NoAgent, <<>>, <<>>)
                       [] OTHER -> RawTopic(state.topic)
           saw == CASE pc = "db_pro_opening" -> <<>>
                    [] pc = "db_con_opening" -> db.pro_args
                    [] OTHER -> db.last
           res == generate_opinion_with_tools(agent_id, instr, prompt, saw,
                                              own_opinions[agent_id], ok)
           phase == stage_phase(pc)
           out == record_turn(state, sink, res, phase, TRUE,
                              EventData(phase, state.round, TRUE, res.input_tokens,
                                        res.output_tokens, 0))
       IN  IF ~ok
           THEN /\ mode_result' = "err"
                /\ pc' = "error"
                /\ UNCHANGED <<state, sink, db, own_opinions>>
           ELSE /\ state' = out.state
                /\ sink' = out.sink
                /\ own_opinions' = [own_opinions EXCEPT ![agent_id] = Append(@, res.content)]
                /\ db' = [db EXCEPT
                            !.i = @ + 1,
                            !.pro_args = IF pc = "db_pro_opening"
                                         THEN Append(@, OpRef(agent_id, state.round, phase))
                                         ELSE @]
                /\ UNCHANGED <<mode_result, pc>>
    /\ failures' = IF ok THEN failures ELSE failures + 1
    /\ UNCHANGED <<config, turnVars, execution, invocations, topic, target, agents, pl, rt,
                   completion_log>>

\* a loop over a team is over: on to the next loop, up to its first await
DebateNextStage ==
    /\ pc \in DebateStages
    /\ db.i > Len(stage_team(pc))
    /\ LET round_num == IF pc = "db_con_opening" THEN 1
                        ELSE IF pc = "db_con_rebuttal" THEN db.round_num + 1
                        ELSE db.round_num
       IN  IF pc \in {"db_pro_opening", "db_pro_rebuttal"}
           THEN /\ pc' = IF pc = "db_pro_opening" THEN "db_con_opening" ELSE "db_con_rebuttal"
                /\ db' = [db EXCEPT !.i = 1]
                /\ UNCHANGED <<state, sink>>
           ELSE IF round_num <= DebateMaxRounds
           THEN \* the head of a rebuttal round
                /\ state' = [state EXCEPT !.round = @ + 1]
                /\ sink' = emit(sink, "status", PlainData("rebuttal", state.round + 1), NoAgent)
                /\ db' = [db EXCEPT !.i = 1, !.round_num = round_num,
                                    !.last = last_statements(state, Len(db.pro) + Len(db.con))]
                /\ pc' = "db_pro_rebuttal"
           ELSE \* the rebuttals are over: up to the await of the judge
                /\ state' = [state EXCEPT !.phase = "summarizing"]
                /\ db' = [db EXCEPT !.round_num = round_num]
                /\ pc' = "db_judge"
                /\ UNCHANGED sink
    /\ UNCHANGED <<config, turnVars, execution, invocations, failures, topic, target, agents,
                   own_opinions, mode_result, pl, rt, completion_log>>

\* the turn of the judge returned
DebateVerdict(ok) ==
    /\ pc = "db_judge"
    /\ LET prompt == TopicText("verdict", state.topic, 0, NoAgent,
                               transcript(state, "pro"), transcript(state, "con"))
           verdict == generate_opinion_with_tools(db.judge, "initial", prompt, <<>>,
                                                  own_opinions[db.judge], ok)
           snk1 == emit_tool_traces(sink, verdict.traces, db.judge, state.round)
           st1 == [state EXCEPT !.summary = verdict.content]
           opinion == Opinion(db.judge, verdict.content, state.round, "judge_verdict", FALSE,
                              verdict.input_tokens, verdict.output_tokens)
       IN  IF ~ok
           THEN /\ mode_result' = "err"
                /\ pc' = "error"
                /\ UNCHANGED <<state, sink, db, agents, own_opinions>>
           ELSE /\ state' = [add_opinion(st1, opinion) EXCEPT !.phase = "completed"]
                /\ sink' = emit(snk1, "opinion",
                                EventData("judge_verdict", state.round, TRUE,
                                          verdict.input_tokens, verdict.output_tokens, 0),
                                db.judge)
                /\ own_opinions' = [own_opinions EXCEPT ![db.judge] = Append(@, verdict.content)]
                /\ agents' = db.pro \o db.con \o <<db.judge>>
                /\ db' = DbIdle
                /\ mode_result' = "ok"
                /\ pc' = "save"
    /\ failures' = IF ok THEN failures ELSE failures + 1
    /\ UNCHANGED <<config, turnVars, execution, invocations, topic, target, pl, rt, completion_log>>

Debate ==
    \/ DebateBegin
    \/ \E ok \in ProviderVerdicts : DebateTurn(ok)
    \/ DebateNextStage
    \/ \E ok \in ProviderVerdicts : DebateVerdict(ok)

(***************************************************************************)
(* Roundtable (orchestration/roundtable.rs).                               *)
(***************************************************************************)
\* run_roundtable called without the response phase
ResponsePhaseDisabled == FALSE

\* run_roundtable(agents, &mut state, &mut emit, true)
EnableResponsePhase == TRUE

\* one task of a fan-out per agent, each with its own copy of the peer context
spawn_tasks(ags, instr, context) ==
    {[agent_id |-> ags[i], instr |-> instr, context |-> context] : i \in 1..Len(ags)}

\* the peer context of phase one
parallel_context(st) == recent_opinions_json(st, RecentLimit)

\* the response phase shown the recent opinions of the state instead
response_context_recent(st, round_one) == recent_opinions_json(st, RecentLimit)

\* the peer context of the response phase
response_context(st, round_one) == round_one

\* from the entry of run_roundtable to the first tasks.next().await
RoundtableBegin ==
    /\ pc = "roundtable"
    /\ state' = [state EXCEPT !.phase = "parallel"]
    /\ sink' = emit(sink, "status", PlainData("parallel", state.round), NoAgent)
    /\ rt' = [tasks |-> spawn_tasks(agents, "initial", parallel_context(state')),
              ready |-> <<>>, completed_agents |-> <<>>, round_one |-> <<>>]
    /\ pc' = "rt_parallel"
    /\ UNCHANGED <<config, turnVars, execution, invocations, failures, topic, target, agents,
                   own_opinions, mode_result, pl, db, completion_log>>

\* a task that adds its token count to the shared state itself
task_effect_counts_tokens(st, res) ==
    [st EXCEPT !.tokens_used = saturating_add(@, res.input_tokens)]

\* what a task of the fan-out does to the shared state: nothing
task_effect(st, res) == st

\* a phase-one task that reads the peer context from the live state
task_context_live(t, st) == IF t.instr = "initial" THEN parallel_context(st) ELSE t.context

\* the peer context a running task reads: the copy it was given when pushed
task_context(t, st) == t.context

\* one task of the fan-out runs its agent's turn to the end and becomes ready
TaskComplete(t, ok) ==
    /\ pc \in {"rt_parallel", "rt_response"}
    /\ t \in rt.tasks
    /\ LET res == generate_opinion_with_tools(t.agent_id, t.instr, RawTopic(state.topic),
                                              task_context(t, state),
                                              own_opinions[t.agent_id], ok)
       IN  /\ rt' = [rt EXCEPT !.tasks = @ \ {t}, !.ready = Append(@, res)]
           /\ own_opinions' = IF ok THEN [own_opinions EXCEPT ![t.agent_id] = Append(@, res.content)]
                                    ELSE own_opinions
           /\ completion_log' = Append(completion_log,
                                       [agent_id |-> t.agent_id, instr |-> t.instr, ok |-> ok,
                                        round |-> state.round, context |-> t.context])
           /\ state' = task_effect(state, res)
    /\ failures' = IF ok THEN failures ELSE failures + 1
    /\ UNCHANGED <<config, turnVars, execution, sink, pc, invocations, topic, target, agents,
                   mode_result, pl, db>>

\* the Ok arm of the joining loop
join_ok(st, snk, round_one, res, phase) ==
    LET snk1 == emit_tool_traces(snk, res.traces, res.agent_id, st.round)
        opinion == Opinion(res.agent_id, res.content, st.round, phase, res.wants_to_continue,
                           res.input_tokens, res.output_tokens)
    IN  [state |-> add_opinion(st, opinion),
         round_one |-> Append(round_one, OpRef(res.agent_id, st.round, phase)),
         sink |-> emit(snk1, "opinion",
                       EventData(phase, st.round, TRUE, res.input_tokens, res.output_tokens, 0),
                       res.agent_id),
         result |-> "none"]

\* an Err arm that propagates the agent's error, as the sequential modes do
join_err_propagate(st, snk, round_one, res, phase) ==
    [state |-> st, round_one |-> round_one, sink |-> snk, result |-> "err"]

\* the Err arm of the joining loop
join_err(st, snk, round_one, res, phase) ==
    [state |-> st, round_one |-> round_one,
     sink |-> emit(snk, "status", PlainData("agent_error", st.round), res.agent_id),
     result |-> "none"]

\* a join that yields the result that completed last
next_ready_last(ready) == Len(ready)

\* which of the ready results tasks.next() yields: the one that completed first
next_ready(ready) == 1

\* a joining loop that keeps only the agents whose turn returned Ok
push_completed_ok_only(completed_agents, res) ==
    IF res.ok THEN Append(completed_agents, res.agent_id) ELSE completed_agents

\* completed_agents.push(agent), after the match on the result
push_completed(completed_agents, res) == Append(completed_agents, res.agent_id)

\* one turn of the joining loop `while let Some((agent, result)) = tasks.next().await`
RoundtableJoin ==
    /\ pc \in {"rt_parallel", "rt_response"}
    /\ rt.ready # <<>>
    /\ LET k == next_ready(rt.ready)
           res == rt.ready[k]
           phase == IF pc = "rt_parallel" THEN "initial" ELSE "response"
           out == IF res.ok THEN join_ok(state, sink, rt.round_one, res, phase)
                            ELSE join_err(state, sink, rt.round_one, res, phase)
       IN  /\ state' = out.state
           /\ sink' = out.sink
           /\ IF out.result = "err"
              THEN /\ mode_result' = "err"
                   /\ pc' = "error"
                   /\ rt' = RtIdle
              ELSE /\ rt' = [rt EXCEPT
                               !.ready = SubSeq(@, 1, k - 1) \o SubSeq(@, k + 1, Len(@)),
                               !.completed_agents = push_completed(@, res),
                               !.round_one = IF pc = "rt_parallel" THEN out.round_one ELSE @]
                   /\ UNCHANGED <<mode_result, pc>>
    /\ UNCHANGED <<config, turnVars, execution, invocations, failures, topic, target, agents,
                   own_opinions, pl, db, completion_log>>

\* the fan-out of phase one is drained: return, or open the response phase
RoundtableRespond ==
    /\ pc = "rt_parallel"
    /\ rt.tasks = {} /\ rt.ready = <<>>
    /\ agents' = rt.completed_agents
    /\ IF ~EnableResponsePhase
       THEN /\ state' = [state EXCEPT !.phase = "completed"]
            /\ mode_result' = "ok"
            /\ pc' = "save"
            /\ rt' = RtIdle
            /\ UNCHANGED sink
       ELSE /\ state' = [state EXCEPT !.phase = "responding"]
            /\ sink' = emit(sink, "status", PlainData("response", state.round), NoAgent)
            /\ rt' = [rt EXCEPT
                        !.tasks = spawn_tasks(rt.completed_agents, "response",
                                              response_context(state, rt.round_one)),
                        !.completed_agents = <<>>]
            /\ pc' = "rt_response"
            /\ UNCHANGED mode_result
    /\ UNCHANGED <<config, turnVars, execution, invocations, failures, topic, target,
                   own_opinions, pl, db, completion_log>>

\* the fan-out of the response phase is drained: Ok(completed_agents)
RoundtableEnd ==
    /\ pc = "rt_response"
    /\ rt.tasks = {} /\ rt.ready = <<>>
    /\ state' = [state EXCEPT !.phase = "completed"]
    /\ agents' = rt.completed_agents
    /\ mode_result' = "ok"
    /\ rt' = RtIdle
    /\ pc' = "save"
    /\ UNCHANGED <<config, turnVars, execution, sink, invocations, failures, topic, target,
                   own_opinions, pl, db, completion_log>>

Roundtable ==
    \/ RoundtableBegin
    \/ \E t \in rt.tasks, ok \in ProviderVerdicts : TaskComplete(t, ok)
    \/ RoundtableJoin
    \/ RoundtableRespond
    \/ RoundtableEnd

Driver ==
    \/ StartExecution
    \/ \E input \in FollowupInputs, target_agent_id \in AgentIds \cup {NoAgent} :
         FollowupExecution(input, target_agent_id)
    \/ RunRoundBegin
    \/ SaveExecution
    \/ ExecutionFailed

Next == Driver \/ Pipeline \/ Debate \/ Roundtable

Spec == Init /\ [][Next]_vars

(***************************************************************************)
(* One agent turn, step by step (agents/instance.rs, tools/executor.rs):   *)
(* the turn of the only stage of a Pipeline, with the provider's replies   *)
(* and the fate of each tool call's blocking operation as inputs.          *)
(***************************************************************************)
\* replies a provider's script spells out before it repeats its last one
MaxScript == 2

\* agent.max_tool_iterations.unwrap_or(10)
DefaultToolIterations == 10

\* .clamp(1, 50)
MinToolIterations == 1

MaxToolIterations == 50

\* Agent.max_tool_iterations: None, or Some(n)
ConfiguredIterations == {<<>>, <<0>>, <<2>>, <<60>>}

clamp(v, lo, hi) == IF v < lo THEN lo ELSE IF v > hi THEN hi ELSE v

\* AgentInstance::from_agent, with the provider handle it is given
from_agent(id, max_tool_iterations, llm) ==
    [id |-> id,
     max_tool_iterations |->
        clamp(IF max_tool_iterations = <<>> THEN DefaultToolIterations
              ELSE max_tool_iterations[1],
              MinToolIterations, MaxToolIterations),
     llm |-> llm, configured |-> max_tool_iterations]

\* the tool calls a provider asks for; fate: the blocking operation "runs" to its
\* end within the deadline, is "slow" (still running at the deadline), or "panics"
ReadNotes(id) ==
    ToolCall(id, "read_file", Arguments(<<Path("notes.md", <<Run("ascii", 8)>>, FALSE)>>, <<>>),
             "runs")

NoPath(id) == ToolCall(id, "read_file", Arguments(<<>>, <<>>), "runs")

Escape(id) ==
    ToolCall(id, "read_file", Arguments(<<Path("secret", <<Run("ascii", 9)>>, TRUE)>>, <<>>),
             "runs")

Unknown(id) == ToolCall(id, "run_shell", Arguments(<<>>, <<<<Run("ascii", 6)>>>>), "runs")

SlowWrite(id) ==
    ToolCall(id, "write_file",
             Arguments(<<Path("out.md", <<Run("ascii", 6)>>, FALSE)>>, <<<<Run("ascii", 20)>>>>),
             "slow")

Crash(id) ==
    ToolCall(id, "read_file", Arguments(<<Path("notes.md", <<Run("ascii", 8)>>, FALSE)>>, <<>>),
             "panics")

\* a path out of the workspace, "../" and a name of 70 CJK characters
LongPath(id) ==
    ToolCall(id, "read_file",
             Arguments(<<Path("outside", <<Run("ascii", 3), Run("cjk", 70)>>, TRUE)>>, <<>>),
             "runs")

LLMResponse(content, tool_calls) ==
    [ok |-> TRUE, content |-> content,
     usage |-> [input_tokens |-> ToWide(7), output_tokens |-> ToWide(3)],
     tool_calls |-> tool_calls]

\* Err(AppError): the provider call failed
ProviderError ==
    [ok |-> FALSE, content |-> <<>>, usage |-> [input_tokens |-> Zero, output_tokens |-> Zero],
     tool_calls |-> <<>>]

ReplyKinds == {"final", "blank", "read", "mixed", "faulty", "wide", "error"}

\* the n-th reply of a provider, by its kind; call ids are unique in a turn
Reply(kind, n) ==
    CASE kind = "final" ->
           LLMResponse(<<Run("ws", 1), Run("ascii", 20), Run("closing", 1), Run("ws", 2)>>, <<>>)
      [] kind = "blank" -> LLMResponse(<<Run("ws", 2)>>, <<>>)
      [] kind = "read" -> LLMResponse(<<Run("ascii", 5), Run("ws", 1)>>, <<ReadNotes(10 * n + 1)>>)
      [] kind = "mixed" -> LLMResponse(<<>>, <<NoPath(10 * n + 1), SlowWrite(10 * n + 2)>>)
      [] kind = "faulty" ->
           LLMResponse(<<>>, <<Escape(10 * n + 1), Unknown(10 * n + 2), Crash(10 * n + 3)>>)
      [] kind = "wide" -> LLMResponse(<<Run("cjk", 4)>>, <<LongPath(10 * n + 1)>>)
      [] kind = "error" -> ProviderError

RECURSIVE Heads(_)
\* the sequences of at most n reply kinds
Heads(n) ==
    IF n = 0 THEN {<<>>}
    ELSE Heads(n - 1) \cup {Append(h, k) : h \in {x \in Heads(n - 1) : Len(x) = n - 1},
                                            k \in ReplyKinds}

\* the providers: what they reply first, and what they reply ever after
Scripts == {[head |-> h, tail |-> t] : h \in Heads(MaxScript), t \in {"final", "read", "error"}}

\* llm.chat / llm.chat_with_tools: the n-th reply of the provider
chat(llm, n) == Reply(IF n <= Len(llm.head) THEN llm.head[n] ELSE llm.tail, n)

\* how the modes call the turn: the tool definitions and the executor they pass
ToolSetups ==
    {[tools |-> 18, executor |-> TRUE], [tools |-> 18, executor |-> FALSE],
     [tools |-> 0, executor |-> TRUE]}
\* a conversation message; payload: what a tool message reports of its result
Message(role, content, tool_call_id, tool_calls, payload) ==
    [role |-> role, content |-> content, tool_call_id |-> tool_call_id,
     tool_calls |-> tool_calls, payload |-> payload]

NoPayload == [ok |-> TRUE, name |-> "", error |-> ""]

\* the messages the turn starts from: the persona, the tool note when tools are
\* enabled, the context, the instruction
first_messages(tools_enabled) ==
    <<Message("system", <<Run("ascii", 30)>>, 0, <<>>, NoPayload)>>
    \o (IF tools_enabled THEN <<Message("system", <<Run("cjk", 56)>>, 0, <<>>, NoPayload)>>
        ELSE <<>>)
    \o <<Message("user", <<Run("cjk", 8), Run("ascii", 6)>>, 0, <<>>, NoPayload),
         Message("user", <<Run("cjk", 60)>>, 0, <<>>, NoPayload)>>

\* the tool-role message of a result: its JSON payload, keyed by result.tool_call_id
tool_message(result) ==
    Message("tool", <<Run("ascii", 40)>> \o result.output, result.tool_call_id, <<>>,
            [ok |-> result.ok, name |-> result.name, error |-> result.error])

\* tools that count as enabled whenever an executor is given
tools_enabled_by_executor(t) == t.executor

\* executor.is_some() && !tools.is_empty()
tools_enabled(t) == t.executor /\ t.tools > 0

\* self.max_tool_iterations.max(1).min(50)
max_iters(inst) == clamp(inst.max_tool_iterations, MinToolIterations, MaxToolIterations)

\* a loop that makes one turn more than max_iters
loop_continues_once_more(iter, limit) == iter <= limit

\* for _ in 0..max_iters: is there a turn of the loop after `iter` turns
loop_continues(iter, limit) == iter < limit

\* from the entry of generate_opinion_with_tools to its first provider call
TurnBegin ==
    /\ pc = "pl_turn"
    /\ turn.pc = "idle"
    /\ \E setup \in ToolSetups :
         turn' = [pc |-> "chat", tools |-> setup.tools, executor |-> setup.executor,
                  messages |-> first_messages(tools_enabled(setup)), traces |-> <<>>,
                  total_input_tokens |-> Zero, total_output_tokens |-> Zero,
                  final_text |-> <<>>, last_text |-> <<>>, iter |-> 0, calls |-> 0,
                  tool_calls |-> <<>>, k |-> 0, own |-> own_opinions[instance.id],
                  result |-> [ok |-> FALSE]]
    /\ UNCHANGED <<config, execution, sink, pc, invocations, failures, topic, target, state,
                   agents, own_opinions, mode_result, pl, db, rt, completion_log, instance,
                   workers, fsys, sandbox, tasks>>

\* what the caller and the scripts leave alone while the turn runs
turnFrame ==
    <<config, execution, sink, pc, invocations, failures, topic, target, state, agents,
      mode_result, pl, db, rt, completion_log, instance, sandbox, tasks>>

\* a failed provider call that leaves the text of the reply before in the history
ChatFailsKeepsText ==
    /\ turn.pc = "chat"
    /\ ~chat(instance.llm, turn.calls + 1).ok
    /\ turn' = [turn EXCEPT !.pc = "returned", !.calls = @ + 1]
    /\ own_opinions' = [own_opinions EXCEPT ![instance.id] = Append(@, trim(turn.last_text))]
    /\ UNCHANGED <<turnFrame, workers, fsys>>

\* the provider call failed: `?` returns the error
ChatFails ==
    /\ turn.pc = "chat"
    /\ ~chat(instance.llm, turn.calls + 1).ok
    /\ turn' = [turn EXCEPT !.pc = "returned", !.calls = @ + 1]
    /\ UNCHANGED <<turnFrame, own_opinions, workers, fsys>>

\* the totals and last_text after a reply
after_reply(t, resp) ==
    [t EXCEPT !.calls = @ + 1,
              !.total_input_tokens = saturating_add(@, resp.usage.input_tokens),
              !.total_output_tokens = saturating_add(@, resp.usage.output_tokens),
              !.last_text = resp.content]

\* a reply without tool calls, or tools are disabled: final_text, break
ChatFinal ==
    /\ turn.pc = "chat"
    /\ LET resp == chat(instance.llm, turn.calls + 1)
       IN  /\ resp.ok
           /\ resp.tool_calls = <<>> \/ ~tools_enabled(turn)
           /\ turn' = [after_reply(turn, resp) EXCEPT !.final_text = resp.content,
                                                       !.pc = "finalize"]
    /\ UNCHANGED <<turnFrame, own_opinions, workers, fsys>>

\* a reply with tool calls: the assistant message, then the calls one by one
ChatToolCalls ==
    /\ turn.pc = "chat"
    /\ LET resp == chat(instance.llm, turn.calls + 1)
       IN  /\ resp.ok
           /\ resp.tool_calls # <<>> /\ tools_enabled(turn)
           /\ turn' = [after_reply(turn, resp) EXCEPT
                         !.messages = Append(@, Message("assistant", <<>>, 0, resp.tool_calls,
                                                        NoPayload)),
                         !.tool_calls = resp.tool_calls,
                         !.k = 1,
                         !.pc = "execute"]
    /\ UNCHANGED <<turnFrame, own_opinions, workers, fsys>>

\* an inner loop that takes the requested calls from the last one down
current_call_reversed(t) == t.tool_calls[Len(t.tool_calls) + 1 - t.k]

\* the tool call the inner loop stands at
current_call(t) == t.tool_calls[t.k]

\* executor.execute(call) up to its await: the operation is handed to a blocking worker
ExecuteStart ==
    /\ turn.pc = "execute"
    /\ LET call == current_call(turn)
       IN  workers' = [tasks |-> Append(workers.tasks,
                                        [call |-> call, status |-> "running",
                                         abandoned |-> FALSE]),
                       log |-> Append(workers.log, [ev |-> "start", id |-> call.id])]
    /\ turn' = [turn EXCEPT !.pc = "join"]
    /\ UNCHANGED <<turnFrame, own_opinions, fsys>>

\* the worker of the call `execute` awaits: the last one handed over
awaited == Len(workers.tasks)

\* the rest of the inner loop's turn once `execute` returned: the trace, the tool
\* message; after the last call of the list the next turn of the outer loop
after_result(t, call, result) ==
    LET t1 == [t EXCEPT !.traces = Append(@, ToolTrace(call, result)),
                        !.messages = Append(@, tool_message(result))]
    IN  IF t.k < Len(t.tool_calls)
        THEN [t1 EXCEPT !.k = @ + 1, !.pc = "execute"]
        ELSE [t1 EXCEPT !.k = 0, !.tool_calls = <<>>, !.iter = @ + 1,
                        !.pc = IF loop_continues(t.iter + 1, max_iters(instance))
                               THEN "chat" ELSE "finalize"]

\* `execute` returned: its worker is marked, its return is logged
execute_returns(status, abandoned, result) ==
    /\ workers' = [tasks |-> [workers.tasks EXCEPT ![awaited].status = status,
                                                   ![awaited].abandoned = abandoned],
                   log |-> Append(workers.log, [ev |-> "return", id |-> result.tool_call_id])]
    /\ turn' = after_result(turn, workers.tasks[awaited].call, result)

\* Ok(Ok(res)): the operation ended within the deadline, with a value or an error
ExecuteDone ==
    /\ turn.pc = "join"
    /\ LET call == workers.tasks[awaited].call
           done == execute_blocking(fsys, call.name, call.arguments)
       IN  /\ call.fate = "runs"
           /\ fsys' = done.fsys
           /\ execute_returns("done", FALSE,
                              execute_result(call, done.ok, done.output, done.error))
    /\ UNCHANGED <<turnFrame, own_opinions>>

\* a timeout that cancels the operation
ExecuteTimeoutCancels ==
    /\ turn.pc = "join"
    /\ LET call == workers.tasks[awaited].call
       IN  /\ call.fate = "slow"
           /\ execute_returns("cancelled", FALSE,
                              execute_result(call, FALSE, EmptyObject,
                                             "Tool execution timed out"))
    /\ UNCHANGED <<turnFrame, own_opinions, fsys>>

\* Err(_): the deadline elapsed; the JoinHandle is dropped, the worker runs on
ExecuteTimeout ==
    /\ turn.pc = "join"
    /\ LET call == workers.tasks[awaited].call
       IN  /\ call.fate = "slow"
           /\ execute_returns("running", TRUE,
                              execute_result(call, FALSE, EmptyObject,
                                             "Tool execution timed out"))
    /\ UNCHANGED <<turnFrame, own_opinions, fsys>>

\* Ok(Err(join_err)): the worker panicked
ExecuteJoinError ==
    /\ turn.pc = "join"
    /\ LET call == workers.tasks[awaited].call
       IN  /\ call.fate = "panics"
           /\ execute_returns("panicked", FALSE,
                              execute_result(call, FALSE, EmptyObject, "task panicked"))
    /\ UNCHANGED <<turnFrame, own_opinions, fsys>>

\* an operation abandoned at its deadline runs to its end
AbandonedCompletes ==
    /\ \E i \in 1..Len(workers.tasks) :
         LET task == workers.tasks[i]
         IN  /\ task.abandoned /\ task.status = "running"
             /\ fsys' = execute_blocking(fsys, task.call.name, task.call.arguments).fsys
             /\ workers' = [workers EXCEPT !.tasks[i].status = "done"]
    /\ UNCHANGED <<turnFrame, own_opinions, turn>>

\* the content of the turn: final_text, or last_text when that is blank, trimmed
final_content(t) == trim(IF trim(t.final_text) = <<>> THEN t.last_text ELSE t.final_text)

\* after the loop: the content, the agent's own history, Ok((response, traces))
TurnReturn ==
    /\ turn.pc = "finalize"
    /\ LET content == final_content(turn)
       IN  /\ own_opinions' = [own_opinions EXCEPT ![instance.id] = Append(@, content)]
           /\ turn' = [turn EXCEPT
                         !.pc = "returned",
                         !.result = [ok |-> TRUE, agent_id |-> instance.id,
                                     content |-> content,
                                     wants_to_continue |-> has_no_closing_phrase(content),
                                     input_tokens |-> turn.total_input_tokens,
                                     output_tokens |-> turn.total_output_tokens,
                                     traces |-> turn.traces]]
    /\ UNCHANGED <<turnFrame, workers, fsys>>

\* run_pipeline after the await of the stage: the turn returned Ok
StageRecord ==
    /\ pc = "pl_turn"
    /\ turn.pc = "returned"
    /\ turn.result.ok
    /\ ~emit_tool_traces_panics(turn.result.traces)
    /\ LET stage == pl.idx + 1
           phase == "stage_" \o ToString(stage)
           out == record_turn(state, sink, turn.result, phase, TRUE,
                              PlainData(phase, state.round))
       IN  /\ state' = out.state
           /\ sink' = out.sink
           /\ pl' = [pl EXCEPT
                       !.idx = stage,
                       !.current_input = handoff(pl.original_topic, stage, instance.id),
                       !.out_agents = Append(@, instance.id)]
    /\ pc' = "pl_loop"
    /\ turn' = [turn EXCEPT !.pc = "joined"]
    /\ UNCHANGED <<config, execution, invocations, failures, topic, target, agents,
                   own_opinions, mode_result, db, rt, completion_log, instance, workers, fsys, sandbox, tasks>>

\* emit_tool_traces panics while it cuts a preview: the task of the round unwinds
StagePanics ==
    /\ pc = "pl_turn"
    /\ turn.pc = "returned"
    /\ turn.result.ok
    /\ emit_tool_traces_panics(turn.result.traces)
    /\ sink' = emit_tool_traces(sink, turn.result.traces, instance.id, state.round)
    /\ pc' = "panicked"
    /\ turn' = [turn EXCEPT !.pc = "joined"]
    /\ UNCHANGED <<config, execution, invocations, failures, topic, target, state, agents,
                   own_opinions, mode_result, pl, db, rt, completion_log, instance, workers,
                   fsys, sandbox, tasks>>

\* the turn returned Err: `?` returns it from run_pipeline
StageFails ==
    /\ pc = "pl_turn"
    /\ turn.pc = "returned"
    /\ ~turn.result.ok
    /\ mode_result' = "err"
    /\ pc' = "error"
    /\ failures' = failures + 1
    /\ turn' = [turn EXCEPT !.pc = "joined"]
    /\ UNCHANGED <<config, execution, sink, invocations, topic, target, state, agents,
                   own_opinions, pl, db, rt, completion_log, instance, workers, fsys, sandbox, tasks>>

\* the first round of a Pipeline of one agent, at the await of its stage
TurnInit ==
    /\ mode = "pipeline"
    /\ team = <<Members[1]>>
    /\ provider = [a \in AgentIds |-> Profiles[1]]
    /\ execution = [status |-> "running", initial_input |-> "remote", llm |-> TRUE,
                    shared_state |-> EmptyJson, current_round |-> 0,
                    tokens_used |-> Zero, error_message |-> FALSE]
    /\ state = [start_new_round(DefaultState) EXCEPT !.topic = "remote",
                                                      !.phase = "sequential"]
    /\ LET user == [sequence |-> 1, round |-> 1, phase |-> "user", sender_id |-> NoAgent,
                    input_tokens |-> as_i32(Zero), output_tokens |-> as_i32(Zero)]
           s0 == [messages |-> <<user>>, msg_seq |-> 2, forwarded |-> <<>>, event_seq |-> 0]
           s1 == emit_event(s0, "status", PlainData("running", 0), NoAgent)
           s2 == emit_event(s1, "user", PlainData("user", 1), NoAgent)
           s3 == emit(s2, "status", PlainData("pipeline", 0), NoAgent)
       IN  sink = emit(s3, "status", PlainData("pipeline", 0), Members[1])
    /\ pc = "pl_turn"
    /\ invocations = 0
    /\ failures = 0
    /\ topic = "remote"
    /\ target = NoAgent
    /\ agents = team
    /\ own_opinions = [a \in AgentIds |-> <<>>]
    /\ mode_result = "none"
    /\ pl = [idx |-> 0, original_topic |-> "remote", current_input |-> RawTopic("remote"),
             out_agents |-> <<>>]
    /\ db = DbIdle
    /\ rt = RtIdle
    /\ completion_log = <<>>
    /\ \E configured \in ConfiguredIterations, llm \in Scripts :
         instance = from_agent(Members[1], configured, llm)
    /\ turn = TurnIdle
    /\ workers = NoWorkers
    /\ fsys = SeedFiles
    /\ sandbox = Unmounted
    /\ tasks = NoTasks

TurnLoop == TurnBegin \/ ChatFails \/ ChatFinal \/ ChatToolCalls \/ TurnReturn

Executor ==
    ExecuteStart \/ ExecuteDone \/ ExecuteTimeout \/ ExecuteJoinError \/ AbandonedCompletes

Stage == StageRecord \/ StagePanics \/ StageFails \/ PipelineEnd \/ SaveExecution \/ ExecutionFailed

TurnNext == TurnLoop \/ Executor \/ Stage

TurnSpec == TurnInit /\ [][TurnNext]_vars


(***************************************************************************)
(* Properties.                                                             *)
(***************************************************************************)
RECURSIVE WideSum(_)
\* the mathematical sum of input_tokens + output_tokens over a list of opinions
WideSum(ops) ==
    IF ops = <<>> THEN Zero
    ELSE WideAdd(WideAdd(Head(ops).input_tokens, Head(ops).output_tokens), WideSum(Tail(ops)))

\* C1 as stated: tokens_used equals the sum of input_tokens + output_tokens over
\* all opinions of the state, in every reachable state.
C1_TokensEqualSum == state.tokens_used = WideSum(state.opinions)

\* C1 as amended: tokens_used equals that sum saturated at u32::MAX, so it equals
\* the sum whenever the sum fits a u32.
C1_TokensEqualSaturatedSum == state.tokens_used = Clamp32(WideSum(state.opinions))

\* a rehydrated state, several opinions, a sum past u32::MAX
C1_Witness ==
    /\ state.round >= 2
    /\ Len(state.opinions) >= 3
    /\ ~IsU32(WideSum(state.opinions))
    /\ state.tokens_used = U32Max

\* C2: every forwarded event of the execution carries a sequence number strictly
\* greater than that of every event forwarded before it.
C2_SequenceStrictlyIncreasing ==
    \A i, j \in 1..Len(sink.forwarded) :
       i < j => sink.forwarded[i].sequence < sink.forwarded[j].sequence

\* C3: state.round never decreases over the lifetime of the Collaboration State.
C3_RoundNeverDecreases == [][state'.round >= state.round]_vars

\* C4: every opinion of the state has round <= state.round.
C4_OpinionRoundAtMostStateRound ==
    \A i \in 1..Len(state.opinions) : state.opinions[i].round <= state.round

(***************************************************************************)
(* Roundtable: what the round in flight has done so far.                   *)
(***************************************************************************)
InRoundtable == mode = "roundtable" /\ pc \in {"rt_parallel", "rt_response", "save"}

\* phase one of the round in flight is drained
PhaseOneDrained == mode = "roundtable" /\ pc \in {"rt_response", "save"}

\* the fan-out tasks of the round in flight that completed, per phase
Completed(instr) ==
    SelectSeq(completion_log, LAMBDA e : e.round = state.round /\ e.instr = instr)

\* the opinions the round in flight added, per phase
Added(phase) == SelectSeq(state.opinions, LAMBDA o : o.round = state.round /\ o.phase = phase)

\* the events of the round in flight, per type and phase
Events(event_type, phase) ==
    SelectSeq(sink.forwarded,
              LAMBDA e : e.event_type = event_type /\ e.round = state.round /\ e.phase = phase)

AgentsOf(seq) == [i \in 1..Len(seq) |-> seq[i].agent_id]

Range(seq) == {seq[i] : i \in 1..Len(seq)}

IsPrefix(s, t) == Len(s) <= Len(t) /\ SubSeq(t, 1, Len(s)) = s

\* C5: a provider failure of one agent in phase one is reported as a status event
\* with phase agent_error and that agent's id; every agent's task has run to
\* completion when the phase is over, every agent that succeeded has its opinion
\* added and emitted, and run_roundtable never returns an error.
C5_FailureIsolated ==
    /\ mode = "roundtable" => mode_result # "err"
    /\ PhaseOneDrained =>
         /\ Range(AgentsOf(Completed("initial"))) = Range(agents)
         /\ \A i \in 1..Len(Completed("initial")) :
              LET e == Completed("initial")[i]
              IN  IF e.ok
                  THEN /\ e.agent_id \in Range(AgentsOf(Added("initial")))
                       /\ e.agent_id \in Range(AgentsOf(Events("opinion", "initial")))
                  ELSE /\ e.agent_id \in Range(AgentsOf(Events("status", "agent_error")))
                       /\ e.agent_id \notin Range(AgentsOf(Added("initial")))

\* one agent failed in phase one, another one's opinion is there, the round is over
C5_Witness ==
    /\ mode = "roundtable" /\ pc = "save" /\ mode_result = "ok"
    /\ \E i, j \in 1..Len(Completed("initial")) :
         /\ ~Completed("initial")[i].ok
         /\ Completed("initial")[j].ok
         /\ Completed("initial")[j].agent_id \in Range(AgentsOf(Added("initial")))

\* the peer context of phase one as the state before the round gives it
PriorContext ==
    recent_opinions_json(
        [opinions |-> SelectSeq(state.opinions, LAMBDA o : o.round < state.round)],
        RecentLimit)

\* C6: with deterministic providers the set of (agent id, content) of the opinions
\* added in phase one is the same for every completion order: each agent that
\* succeeded contributes the text its provider gives for the topic and the peer
\* context of before the round.
C6_SameOpinionSet ==
    PhaseOneDrained =>
       {<<Added("initial")[i].agent_id, Added("initial")[i].content>> :
           i \in 1..Len(Added("initial"))}
       = {<<e.agent_id,
            Content(e.agent_id, "initial", RawTopic(state.topic), PriorContext, 0,
                    provider[e.agent_id].closing)>> :
           e \in {x \in Range(Completed("initial")) : x.ok}}

\* a follow-up round whose phase one ended in other than input order
C6_Witness ==
    /\ PhaseOneDrained
    /\ state.round >= 2
    /\ Len(Added("initial")) >= 2
    /\ AgentsOf(Added("initial")) # SubSeq(team, 1, Len(Added("initial")))

FanOutInFlight == pc \in {"rt_parallel", "rt_response"} /\ (rt.tasks # {} \/ rt.ready # <<>>)

\* C7: while a fan-out is in flight the Collaboration State changes only in a turn
\* of the joining loop, which takes one result from the join and adds at most that
\* one opinion (its tokens, its continuation intent) to the state; a step of an
\* agent's task leaves the state as it is.
C7_StateChangesOnlyInJoin ==
    [][(FanOutInFlight /\ state' # state) =>
         /\ rt.ready # <<>>
         /\ rt'.tasks = rt.tasks
         /\ Len(rt'.ready) = Len(rt.ready) - 1
         /\ rt'.completed_agents = Append(rt.completed_agents, rt.ready[1].agent_id)
         /\ state'.opinions = Append(state.opinions, state'.opinions[Len(state'.opinions)])
         /\ state' = add_opinion(state, state'.opinions[Len(state'.opinions)])
         /\ state'.opinions[Len(state'.opinions)].agent_id = rt.ready[1].agent_id]_vars

\* an opinion was joined while another task of the fan-out is still running
C7_Witness ==
    /\ pc = "rt_parallel"
    /\ rt.tasks # {}
    /\ Len(Added("initial")) >= 1

\* the opinions of phase one of the round in flight, as a peer context
PhaseOneRefs ==
    [i \in 1..Len(Added("initial")) |->
       OpRef(Added("initial")[i].agent_id, state.round, "initial")]

\* C8: a response-phase task exists only when every phase-one task has been joined,
\* and every response-phase task is given the same peer context: the opinions
\* produced in phase one of this round, and nothing else.
C8_ResponseContext ==
    /\ \A t \in rt.tasks :
         t.instr = "response" =>
            /\ pc = "rt_response"
            /\ \A u \in rt.tasks : u.instr = "response"
            /\ \A i \in 1..Len(rt.ready) : rt.ready[i].instr = "response"
            /\ Range(AgentsOf(Completed("initial"))) = Range(agents)
            /\ t.context = PhaseOneRefs
    /\ InRoundtable =>
         \A i \in 1..Len(Completed("response")) :
            Completed("response")[i].context = PhaseOneRefs

\* a follow-up round in its response phase, with phase-one opinions to show
C8_Witness ==
    /\ pc = "rt_response"
    /\ state.round >= 2
    /\ Cardinality(rt.tasks) >= 2
    /\ Len(PhaseOneRefs) >= 2

\* the state a first Roundtable round without provider failure must end in
FirstRoundOutcome(st, ags) ==
    LET n == Len(ags)
    IN  /\ n >= 1
        /\ Len(st.opinions) = 2 * n
        /\ \A i \in 1..n : st.opinions[i].phase = "initial"
        /\ \A i \in (n + 1)..(2 * n) : st.opinions[i].phase = "response"
        /\ {st.opinions[i].agent_id : i \in 1..n} = Range(ags)
        /\ {st.opinions[i].agent_id : i \in (n + 1)..(2 * n)} = Range(ags)
        /\ Cardinality(Range(ags)) = n
        /\ st.round = 1
        /\ st.phase = "completed"
        /\ (\E a \in Range(ags) :
              provider[a].input_tokens # Zero \/ provider[a].output_tokens # Zero)
             => WideLess(Zero, st.tokens_used)

C10_CompletionOrder ==
    InRoundtable =>
       \A p \in {"initial", "response"} :
          LET done == AgentsOf(SelectSeq(Completed(p), LAMBDA e : e.ok))
          IN  /\ AgentsOf(Added(p)) = AgentsOf(Events("opinion", p))
              /\ IsPrefix(AgentsOf(Added(p)), done)
              /\ (pc = "save" \/ (pc = "rt_response" /\ p = "initial"))
                   => AgentsOf(Added(p)) = done

\* both opinions of a phase are there, against the input order
C10_Witness ==
    /\ InRoundtable
    /\ Len(agents) >= 2
    /\ AgentsOf(Added("initial")) = <<team[2], team[1]>>

(***************************************************************************)
(* Debate: what the run in flight has done so far.                         *)
(***************************************************************************)
InDebate == mode = "debate" /\ pc \in DebateStages \cup {"db_judge"}

\* a debate returned Ok and the driver is about to save the state
DebateDone == mode = "debate" /\ pc = "save" /\ mode_result = "ok"

\* the opinions the state held when the round in flight began
PriorOpinions == from_value(execution.shared_state).opinions

\* the opinions the run in flight has added
RunOpinions == SubSeq(state.opinions, Len(PriorOpinions) + 1, Len(state.opinions))

\* C17: for K >= 3 agents in input order the judge is agents[K-1] (the last one),
\* the pro team is the first floor((K-1)/2) of the other agents and the con team
\* is the rest of them; the three groups are disjoint and together are exactly the
\* input agents.
C17_RoleAssignment ==
    (InDebate /\ Len(agents) >= 3) =>
       LET K == Len(agents)
           P == (K - 1) \div 2
       IN  /\ db.judge = agents[K]
           /\ db.pro = SubSeq(agents, 1, P)
           /\ db.con = SubSeq(agents, P + 1, K - 1)
           /\ Range(db.pro) \cap Range(db.con) = {}
           /\ db.judge \notin Range(db.pro) \cup Range(db.con)
           /\ Range(db.pro) \cup Range(db.con) \cup {db.judge} = Range(agents)
           /\ Len(db.pro) + Len(db.con) + 1 = Cardinality(Range(agents))

\* a debate of four agents: one pro, two con, a judge
C17_Witness ==
    /\ InDebate
    /\ Len(agents) = 4
    /\ Len(db.pro) = 1 /\ Len(db.con) = 2
    /\ pc = "db_con_rebuttal"

\* who speaks i-th, and under which phase tag, in a debate of ags with R rebuttal
\* rounds: the openings of pro and con, R times the rebuttals of pro and con, the judge
DebatePlan(ags, R) ==
    LET K == Len(ags)
        P == (K - 1) \div 2
        n == (K - 1) * (1 + R) + 1
    IN  [i \in 1..n |->
           IF i = n THEN <<ags[K], "judge_verdict">>
           ELSE LET j == ((i - 1) % (K - 1)) + 1
                    side == IF j <= P THEN "pro" ELSE "con"
                    part == IF i <= K - 1 THEN "opening" ELSE "rebuttal"
                IN  <<ags[j], side \o "_" \o part>>]

\* C18: a Debate run of P pro and C con members with R = max_rounds rebuttal rounds
\* and no provider failure adds exactly (P + C) * (1 + R) + 1 opinions: P
\* pro_opening, C con_opening, then per rebuttal round P pro_rebuttal and C
\* con_rebuttal, then one judge_verdict; the members of a team in input order.
C18_DebateOpinionOrder ==
    DebateDone =>
       /\ Len(RunOpinions) = (Len(agents) - 1) * (1 + DebateMaxRounds) + 1
       /\ [i \in 1..Len(RunOpinions) |-> <<RunOpinions[i].agent_id, RunOpinions[i].phase>>]
            = DebatePlan(agents, DebateMaxRounds)

\* a follow-up debate of one pro and two con members returned: 13 more opinions
C18_Witness ==
    /\ DebateDone
    /\ Len(agents) = 4
    /\ Len(PriorOpinions) > 0
    /\ Len(RunOpinions) = 13
    /\ RunOpinions[4].phase = "pro_rebuttal" /\ RunOpinions[5].phase = "con_rebuttal"

\* the statements of one side among the opinions of the run in flight, as the
\* verdict prompt lists them
RunStatements(side) ==
    LET picked == SelectSeq(RunOpinions,
                            LAMBDA o : o.phase \in {side \o "_opening", side \o "_rebuttal"})
    IN  [i \in 1..Len(picked) |-> OpRef(picked[i].agent_id, picked[i].round, picked[i].phase)]

IsSuffix(s, t) == Len(s) <= Len(t) /\ SubSeq(t, Len(t) - Len(s) + 1, Len(t)) = s

\* C19: after a successful Debate run state.summary is the content of the
\* judge_verdict opinion, the last opinion of the run, and the transcript the judge
\* was given ends with every pro_* and every con_* opinion of this run, openings
\* and rebuttals, in the order they were made.
C19_VerdictIsSummary ==
    DebateDone =>
       LET verdict == state.opinions[Len(state.opinions)]
       IN  /\ verdict.phase = "judge_verdict"
           /\ verdict.agent_id = agents[Len(agents)]
           /\ state.summary = verdict.content
           /\ verdict.content.topic.kind = "verdict"
           /\ IsSuffix(RunStatements("pro"), verdict.content.topic.pro)
           /\ IsSuffix(RunStatements("con"), verdict.content.topic.con)
           /\ Len(RunStatements("pro")) + Len(RunStatements("con")) = Len(RunOpinions) - 1

\* a debate of four returned: the judge saw 4 pro and 8 con statements of the run
C19_Witness ==
    /\ DebateDone
    /\ Len(agents) = 4
    /\ state.summary # NoContent
    /\ Len(RunStatements("pro")) = 1 + DebateMaxRounds
    /\ Len(RunStatements("con")) = 2 * (1 + DebateMaxRounds)
    /\ state.summary.topic.pro = RunStatements("pro")

IsRebuttal(phase) == phase \in {"pro_rebuttal", "con_rebuttal"}

\* the round the run in flight made its opening statements in
OpeningRound == IF RunOpinions = <<>> THEN state.round ELSE RunOpinions[1].round

\* C20: in every rebuttal round state.round is one more than in the round before,
\* and the peer context of each pro and each con rebuttal is exactly the P + C
\* statements added in the round before it (the openings for the first rebuttal
\* round, the rebuttals of the round before afterwards): none of the current
\* round, none of an older one.
C20_RebuttalContext ==
    /\ (mode = "debate" /\ pc \in {"db_pro_rebuttal", "db_con_rebuttal"}) =>
          /\ db.round_num \in 1..DebateMaxRounds
          /\ RunOpinions # <<>> => state.round = OpeningRound + db.round_num
    /\ (InDebate \/ DebateDone) =>
          \A i \in 1..Len(RunOpinions) :
             LET o == RunOpinions[i]
                 w == Len(agents) - 1
                 b == (i - 1) \div w
                 before == {OpRef(RunOpinions[k].agent_id, RunOpinions[k].round,
                                  RunOpinions[k].phase) : k \in ((b - 1) * w + 1)..(b * w)}
             IN  IsRebuttal(o.phase) =>
                    /\ b >= 1
                    /\ o.round = OpeningRound + b
                    /\ Len(o.content.saw) = w
                    /\ Range(o.content.saw) = before
                    /\ \A r \in before : r.round = o.round - 1

\* the second rebuttal round of a debate of four: a rebuttal made on the three
\* rebuttals of the round before
C20_Witness ==
    /\ InDebate
    /\ pc = "db_con_rebuttal"
    /\ Len(agents) = 4
    /\ db.round_num = 2
    /\ LET o == RunOpinions[Len(RunOpinions)]
       IN  /\ o.phase = "con_rebuttal"
           /\ o.round = state.round
           /\ \A r \in Range(o.content.saw) : IsRebuttal(r.phase) /\ r.round = state.round - 1

(***************************************************************************)
(* The tool-use loop of one turn (TurnSpec).                               *)
(***************************************************************************)
\* the turn is over: generate_opinion_with_tools returned to run_pipeline
TurnReturned == turn.pc \in {"returned", "joined"}

\* the turn returned Ok((response, traces))
TurnSucceeded == TurnReturned /\ turn.result.ok

\* the turn was given an executor and a tool list that is not empty
ToolsEnabled == turn.executor /\ turn.tools > 0

\* the provider asks for tool calls in every reply it ever gives
AlwaysToolCalls(llm) ==
    \A n \in 1..(Len(llm.head) + 1) : chat(llm, n).ok /\ chat(llm, n).tool_calls # <<>>

\* the persona's iteration budget: the configured value in [1,50], 10 when absent
IterationBudget ==
    LET wanted == IF instance.configured = <<>> THEN 10 ELSE instance.configured[1]
    IN  IF wanted < 1 THEN 1 ELSE IF wanted > 50 THEN 50 ELSE wanted

\* C11: a turn never makes more provider calls than the persona's iteration budget
\* (the configured value clamped to [1,50], 10 when absent); with tools enabled and
\* a provider that asks for tool calls in every reply, the loop is over after
\* exactly that many calls and the turn returns the trimmed text of the last reply.
C11_LoopBudget ==
    /\ turn.pc # "idle" => turn.calls <= IterationBudget
    /\ (turn.pc # "idle" /\ ToolsEnabled /\ AlwaysToolCalls(instance.llm)) =>
         /\ turn.pc = "finalize" => turn.calls = IterationBudget
         /\ TurnReturned =>
              /\ turn.result.ok
              /\ turn.calls = IterationBudget
              /\ turn.result.content = trim(chat(instance.llm, IterationBudget).content)

\* a budget configured as 60 is spent after 50 calls that all asked for tools
C11_Witness ==
    /\ TurnSucceeded
    /\ ToolsEnabled /\ AlwaysToolCalls(instance.llm)
    /\ instance.configured = <<60>>
    /\ turn.calls = 50
    /\ Len(turn.result.traces) >= 50
    /\ turn.result.content = <<Run("ascii", 5)>>

\* the n-th reply of the turn's provider came, and asks for no tool
PlainReply(n) == chat(instance.llm, n).ok /\ chat(instance.llm, n).tool_calls = <<>>

\* C12: with tools enabled the loop goes on only past replies that ask for tools and
\* stops at the first reply that asks for none, whose trimmed text is the content of
\* the turn; with tools disabled (no executor, or no tool definition) the turn makes
\* exactly one provider call and executes no tool, whatever the reply asks for.
C12_StopRule ==
    turn.pc # "idle" =>
      IF ToolsEnabled
      THEN /\ \A n \in 1..(turn.calls - 1) : ~PlainReply(n)
           /\ (turn.pc = "finalize" /\ turn.calls < IterationBudget) => PlainReply(turn.calls)
           /\ (turn.pc \in {"chat", "execute", "join"} /\ turn.calls > 0) =>
                ~PlainReply(turn.calls)
           /\ (TurnSucceeded /\ PlainReply(turn.calls)) =>
                turn.result.content = trim(chat(instance.llm, turn.calls).content)
      ELSE /\ turn.calls <= 1
           /\ turn.pc \notin {"execute", "join"}
           /\ workers.tasks = <<>> /\ workers.log = <<>> /\ turn.traces = <<>>
           /\ fsys = SeedFiles
           /\ TurnReturned => turn.calls = 1
           /\ TurnSucceeded => turn.result.content = trim(chat(instance.llm, 1).content)

\* the second reply is the first that asks for no tool, and the turn ends with its
\* text although the provider would have asked for tools again
C12_Witness ==
    /\ TurnSucceeded
    /\ ToolsEnabled
    /\ instance.llm = [head |-> <<"read", "final">>, tail |-> "read"]
    /\ IterationBudget > 2
    /\ turn.calls = 2
    /\ Len(workers.tasks) = 1
    /\ turn.result.content = <<Run("ascii", 20), Run("closing", 1)>>

\* the ids of a list of tool calls
Ids(calls) == [j \in 1..Len(calls) |-> calls[j].id]

RECURSIVE Requested(_)
\* the ids of the calls the first n replies of the turn's provider ask for
Requested(n) ==
    IF n = 0 THEN <<>> ELSE Requested(n - 1) \o Ids(chat(instance.llm, n).tool_calls)

RECURSIVE Conversation(_)
\* what the first n replies add to the conversation when each of their iterations
\* is over: per reply one assistant message with its calls, then one tool message
\* per call
Conversation(n) ==
    IF n = 0 THEN <<>>
    ELSE LET cs == chat(instance.llm, n).tool_calls
         IN  Conversation(n - 1)
             \o (IF cs = <<>> THEN <<>>
                 ELSE <<[role |-> "assistant", ids |-> Ids(cs)]>>
                      \o [j \in 1..Len(cs) |-> [role |-> "tool", ids |-> <<cs[j].id>>]])

\* the assistant and tool messages of the turn's conversation and the call ids they carry
Said ==
    LET ms == SelectSeq(turn.messages, LAMBDA m : m.role \in {"assistant", "tool"})
    IN  [i \in 1..Len(ms) |->
           [role |-> ms[i].role,
            ids |-> IF ms[i].role = "tool" THEN <<ms[i].tool_call_id>>
                    ELSE Ids(ms[i].tool_calls)]]

\* the ids of the Executor's log entries of one kind, in order
Logged(ev) ==
    LET es == SelectSeq(workers.log, LAMBDA e : e.ev = ev)
    IN  [i \in 1..Len(es) |-> es[i].id]

\* C13: with tools enabled the conversation grows, per reply that asks for calls
\* c1..cn, by one assistant message carrying c1..cn and then one tool message per
\* call in request order, each with the id of its call; the Executor is entered
\* once per call in request order, and only after the call before has returned;
\* the trace list has the order of the calls.
C13_SequentialCalls ==
    (turn.pc # "idle" /\ ToolsEnabled) =>
      /\ IsPrefix(Said, Conversation(turn.calls))
      /\ turn.pc \in {"chat", "finalize", "returned", "joined"} =>
           Said = Conversation(turn.calls)
      /\ \A i \in 1..Len(workers.log) :
           /\ workers.log[i].ev = (IF i % 2 = 1 THEN "start" ELSE "return")
           /\ i % 2 = 0 => workers.log[i].id = workers.log[i - 1].id
      /\ IsPrefix(Logged("start"), Requested(turn.calls))
      /\ turn.pc = "execute" => Logged("return") = Logged("start")
      /\ [i \in 1..Len(turn.traces) |-> turn.traces[i].call.id] = Logged("return")
      /\ \A i \in 1..Len(turn.traces) :
           turn.traces[i].result.tool_call_id = turn.traces[i].call.id
      /\ Len(SelectSeq(Said, LAMBDA m : m.role = "tool")) = Len(Logged("return"))

\* the iteration of a reply that asked for three calls is over
C13_Witness ==
    /\ turn.pc = "chat"
    /\ ToolsEnabled
    /\ turn.calls = 1
    /\ Len(chat(instance.llm, 1).tool_calls) = 3
    /\ Said = <<[role |-> "assistant", ids |-> <<11, 12, 13>>],
                [role |-> "tool", ids |-> <<11>>], [role |-> "tool", ids |-> <<12>>],
                [role |-> "tool", ids |-> <<13>>]>>
    /\ Logged("start") = <<11, 12, 13>>
    /\ Len(turn.traces) = 3

\* the turn returned the error of a provider call
TurnFailed == TurnReturned /\ ~turn.result.ok

\* C14: a turn returns an error exactly when one of its provider calls failed, at
\* whatever iteration; then the agent's own opinion history is what it was before
\* the turn and the Collaboration State has no Opinion of the turn. The history is
\* untouched while the turn runs, and a turn that returns Ok has appended exactly
\* one entry to it, the content it returns.
C14_FailedTurnLeavesNoOpinion ==
    turn.pc # "idle" =>
      /\ \A n \in 1..(turn.calls - 1) : chat(instance.llm, n).ok
      /\ TurnReturned => (turn.result.ok <=> chat(instance.llm, turn.calls).ok)
      /\ TurnFailed =>
           /\ own_opinions[instance.id] = turn.own
           /\ state.opinions = <<>>
           /\ state.tokens_used = Zero
      /\ ~TurnReturned => own_opinions[instance.id] = turn.own
      /\ TurnSucceeded => own_opinions[instance.id] = Append(turn.own, turn.result.content)
      /\ \A a \in AgentIds : a # instance.id => own_opinions[a] = <<>>

\* the third provider call failed, after two iterations that executed tools; the
\* round has ended with the error
C14_Witness ==
    /\ TurnFailed
    /\ turn.calls = 3
    /\ Len(turn.traces) >= 2
    /\ pc = "error"
    /\ mode_result = "err"
    /\ own_opinions[instance.id] = <<>>
    /\ state.opinions = <<>>

\* the call fails for a reason of the tool level: an unknown tool, a missing path,
\* a path out of the workspace, an operation that is slow or whose worker panics
ToolLevelFailure(call) ==
    \/ call.name \notin {"read_file", "write_file"}
    \/ call.arguments.path = <<>>
    \/ call.arguments.path[1].escapes
    \/ call.fate \in {"slow", "panics"}

\* every call of the turn that failed at the tool level has a ToolResult with ok =
\* false, an error text and its id, and a tool message that reports it
ToolFailuresReported ==
    turn.pc # "idle" =>
      \A i \in 1..Len(turn.traces) :
         LET call == turn.traces[i].call
             result == turn.traces[i].result
         IN  ToolLevelFailure(call) =>
               /\ ~result.ok /\ result.error # "" /\ result.tool_call_id = call.id
               /\ \E j \in 1..Len(turn.messages) :
                    /\ turn.messages[j].role = "tool"
                    /\ turn.messages[j].tool_call_id = call.id
                    /\ ~turn.messages[j].payload.ok
                    /\ turn.messages[j].payload.error = result.error

\* a turn returns an error only when a provider call failed
TurnFailsByProviderOnly == TurnFailed => ~chat(instance.llm, turn.calls).ok

\* the round came to an end without its result: it returned an error, or its task
\* unwound in a panic
RoundFailed == mode_result = "err" \/ pc = "panicked"

\* C15: a tool call that fails at the tool level yields a ToolResult with ok = false,
\* an error text and the id of its call, and is fed back as a tool message; it never
\* makes the turn return an error, and a round fails only when a provider call failed.
C15_ToolFailuresStayLocal ==
    /\ ToolFailuresReported
    /\ TurnFailsByProviderOnly
    /\ RoundFailed => (turn.pc # "idle" /\ ~chat(instance.llm, turn.calls).ok)

\* the step in which `execute` returns for a call whose operation is still running
\* when the deadline elapses
TimeoutStep ==
    /\ turn.pc = "join"
    /\ workers.tasks[Len(workers.tasks)].call.fate = "slow"
    /\ turn' # turn

\* what the step of a timeout does: the failed result with the id of its call, its
\* trace and its tool message; the operation still runs and has changed no file;
\* the loop goes on with the next call of the list, else with the next provider
\* call, else (the iteration budget spent) to the end of the turn
TimeoutOutcome ==
    LET n == Len(workers.tasks)
        call == workers.tasks[n].call
        result == [tool_call_id |-> call.id, name |-> call.name, ok |-> FALSE,
                   output |-> EmptyObject, error |-> "Tool execution timed out"]
        said == turn'.messages[Len(turn'.messages)]
    IN  /\ turn'.traces = Append(turn.traces, [call |-> call, result |-> result])
        /\ Len(turn'.messages) = Len(turn.messages) + 1
        /\ SubSeq(turn'.messages, 1, Len(turn.messages)) = turn.messages
        /\ said.role = "tool" /\ said.tool_call_id = call.id
        /\ ~said.payload.ok /\ said.payload.error = "Tool execution timed out"
        /\ fsys' = fsys
        /\ workers'.tasks[n].status = "running"
        /\ turn'.calls = turn.calls
        /\ turn'.pc = IF turn.k < Len(turn.tool_calls) THEN "execute"
                      ELSE IF turn.calls < IterationBudget THEN "chat"
                      ELSE "finalize"
        /\ own_opinions' = own_opinions

\* C16: when the operation of a tool call is still running at the deadline, execute
\* returns a ToolResult with ok = false and the timeout error without waiting for
\* it; the loop appends the result as a tool message and goes on; the operation is
\* not cancelled, and has had no effect on the files when the failure is reported.
C16_TimeoutAbandonsOperation == [][TimeoutStep => TimeoutOutcome]_vars

\* the write that timed out was reported as failed, the provider was called again,
\* and the abandoned write has since put its content into the file
C16_Witness ==
    /\ turn.pc \in {"finalize", "returned", "joined"}
    /\ turn.calls >= 2
    /\ \E i \in 1..Len(turn.traces) :
         /\ turn.traces[i].call.name = "write_file"
         /\ turn.traces[i].result.error = "Tool execution timed out"
         /\ \E j \in 1..Len(workers.tasks) :
              /\ workers.tasks[j].call = turn.traces[i].call
              /\ workers.tasks[j].abandoned /\ workers.tasks[j].status = "done"
    /\ SeedFiles["out.md"] = <<>>
    /\ fsys["out.md"] = <<Run("ascii", 20)>>

(***************************************************************************)
(* The sequential modes: what the run in flight has done so far.           *)
(***************************************************************************)
\* the agents whose turn, and with it their provider call, is in flight in a
\* Pipeline or a Debate
InFlight ==
    CASE mode = "pipeline" /\ pc = "pl_turn" -> {agents[pl.idx + 1]}
      [] mode = "debate" /\ pc \in DebateStages /\ db.i <= Len(stage_team(pc)) ->
           {stage_team(pc)[db.i]}
      [] mode = "debate" /\ pc = "db_judge" -> {db.judge}
      [] OTHER -> {}

\* the index of the last "user" event: where the events of the round in flight begin
RoundStart ==
    LET users == {i \in 1..Len(sink.forwarded) : sink.forwarded[i].event_type = "user"}
    IN  IF users = {} THEN 0 ELSE CHOOSE i \in users : \A j \in users : j <= i

\* the events the round in flight has emitted since its "user" event
RunEvents == SubSeq(sink.forwarded, RoundStart + 1, Len(sink.forwarded))

\* the opinion events among them
RunOpinionEvents == SelectSeq(RunEvents, LAMBDA e : e.event_type = "opinion")

\* who has spoken, and under which phase tag
Spoken(seq) == [i \in 1..Len(seq) |-> <<seq[i].agent_id, seq[i].phase>>]

\* the turns a run of these agents makes, in order: the stages of a Pipeline, the
\* plan of a Debate
TurnPlan ==
    IF mode = "pipeline"
    THEN [k \in 1..Len(agents) |-> <<agents[k], "stage_" \o ToString(k)>>]
    ELSE DebatePlan(agents, DebateMaxRounds)

\* C21: in a Pipeline and in a Debate at most one agent has a provider call in
\* flight, and while the call of an agent is in flight every turn before it in the
\* order of the run has returned, its opinion is in the state and its opinion event
\* has been emitted.
C21_OneCallInFlight ==
    (mode \in {"pipeline", "debate"} /\ InFlight # {}) =>
       /\ Cardinality(InFlight) = 1
       /\ Len(RunOpinions) < Len(TurnPlan)
       /\ InFlight = {TurnPlan[Len(RunOpinions) + 1][1]}
       /\ Spoken(RunOpinions) = SubSeq(TurnPlan, 1, Len(RunOpinions))
       /\ Spoken(RunOpinionEvents) = Spoken(RunOpinions)

\* the second con member of a debate is awaited in a rebuttal round: the six turns
\* before have been added and emitted
C21_Witness ==
    /\ mode = "debate"
    /\ pc = "db_con_rebuttal"
    /\ Len(db.con) = 2
    /\ InFlight = {db.con[2]}
    /\ Len(RunOpinions) >= 5
    /\ Spoken(RunOpinionEvents) = Spoken(RunOpinions)

\* a Pipeline returned Ok and the driver is about to save the state
PipelineDone == mode = "pipeline" /\ pc = "save" /\ mode_result = "ok"

\* what stage k of a Pipeline over ags is given: the raw topic, or the hand-off of
\* the original topic and the output of stage k - 1
StageInput(ags, k) ==
    IF k = 1 THEN [kind |-> "raw", text |-> topic, stage |-> 0, by |-> NoAgent,
                   pro |-> <<>>, con |-> <<>>]
    ELSE [kind |-> "handoff", text |-> topic, stage |-> k - 1, by |-> ags[k - 1],
          pro |-> <<>>, con |-> <<>>]

\* the k-th opinion of the run is the one of stage k: by the k-th agent, tagged
\* stage_k, written on the input of stage k
IsStageOpinion(op, ags, k) ==
    /\ op.agent_id = ags[k]
    /\ op.phase = "stage_" \o ToString(k)
    /\ op.content.author = ags[k]
    /\ op.content.topic = StageInput(ags, k)
    /\ op.round = state.round

\* C22: while a Pipeline runs the opinions it has added are those of stage 1..k in
\* input order, stage 1 written on the raw topic and every later stage on the
\* hand-off of the original topic and the output of the stage before it; a
\* Pipeline of n agents that returns Ok has added exactly n opinions, tagged
\* stage_1..stage_n.
C22_PipelineRelay ==
    /\ (mode = "pipeline" /\ pc \in {"pl_loop", "pl_turn"}) =>
         /\ Len(RunOpinions) = pl.idx
         /\ \A k \in 1..Len(RunOpinions) : IsStageOpinion(RunOpinions[k], agents, k)
    /\ PipelineDone =>
         /\ Len(RunOpinions) = Len(agents)
         /\ \A k \in 1..Len(agents) : IsStageOpinion(RunOpinions[k], agents, k)
         /\ Spoken(RunOpinionEvents) = Spoken(RunOpinions)

\* a follow-up Pipeline of three agents returned: stage 3 wrote on the hand-off of
\* stage 2
C22_Witness ==
    /\ PipelineDone
    /\ Len(agents) = 3
    /\ Len(PriorOpinions) > 0
    /\ Len(RunOpinions) = 3
    /\ RunOpinions[3].phase = "stage_3"
    /\ RunOpinions[3].content.topic.by = agents[2]
    /\ RunOpinions[1].content.topic.kind = "raw"

\* the number of opinions of the run in flight an agent wrote
WrittenBy(a) == Len(SelectSeq(RunOpinions, LAMBDA o : o.agent_id = a))

\* C23: once a turn of a Pipeline or a Debate (a stage, a team member, the judge)
\* has failed with a provider error, the mode has returned the error and no turn
\* after it is made: the state holds the opinions of the turns before the failed
\* one and no other of this run, each agent's history holds what it wrote before
\* the failure, and the driver marks the execution failed and emits an error event.
C23_FailedStageAborts ==
    (mode \in {"pipeline", "debate"} /\ failures > 0) =>
       /\ pc \in {"error", "idle"}
       /\ mode_result = "err"
       /\ InFlight = {}
       /\ Len(RunOpinions) < Len(TurnPlan)
       /\ Spoken(RunOpinions) = SubSeq(TurnPlan, 1, Len(RunOpinions))
       /\ Spoken(RunOpinionEvents) = Spoken(RunOpinions)
       /\ \A a \in AgentIds : Len(own_opinions[a]) = WrittenBy(a)
       /\ pc = "idle" =>
            /\ execution.status = "failed"
            /\ execution.error_message
            /\ sink.forwarded[Len(sink.forwarded)].event_type = "error"

\* the second con member's rebuttal failed in a follow-up debate: the run has its
\* opinions up to there, and the execution is marked failed
C23_Witness ==
    /\ mode = "debate"
    /\ failures > 0
    /\ pc = "idle"
    /\ execution.status = "failed"
    /\ Len(agents) = 4
    /\ Len(RunOpinions) = 5
    /\ TurnPlan[6] = <<agents[3], "con_rebuttal">>
    /\ sink.forwarded[Len(sink.forwarded)].event_type = "error"

(***************************************************************************)
(* The engine-level phase.                                                 *)
(***************************************************************************)
\* the driver stands inside run_pipeline, run_debate or run_roundtable
InModeRun ==
    pc \in {"pipeline", "pl_loop", "pl_turn", "debate", "db_judge", "roundtable",
            "rt_parallel", "rt_response"} \cup DebateStages

\* the driver stands at the entry of a mode: the mode has not yet set the phase
AtModeEntry == pc \in {"pipeline", "debate", "roundtable"}

\* how far along Initializing -> {Parallel, Sequential} -> Responding ->
\* Summarizing -> Completed a phase is
PhaseRank(phase) ==
    CASE phase = "initializing" -> 0
      [] phase \in {"parallel", "sequential"} -> 1
      [] phase = "responding" -> 2
      [] phase = "summarizing" -> 3
      [] phase = "completed" -> 4
      [] OTHER -> 5

\* a move forward along the phase order
MovesForward(from, to) == PhaseRank(from) < PhaseRank(to) /\ PhaseRank(to) < 5

TurnEvents ==
    LET es == SelectSeq(sink.forwarded,
                        LAMBDA e : e.event_type \in {"tool_call", "tool_result", "opinion"})
    IN  [i \in 1..Len(es) |-> <<es[i].event_type, es[i].agent_id, es[i].tool_call_id>>]

RECURSIVE TraceEvents(_, _)
\* per trace, in order: its tool_call event, then its tool_result event
TraceEvents(traces, agent_id) ==
    IF traces = <<>> THEN <<>>
    ELSE <<<<"tool_call", agent_id, Head(traces).call.id>>,
           <<"tool_result", agent_id, Head(traces).call.id>>>>
         \o TraceEvents(Tail(traces), agent_id)

\* the turn returned Ok and run_pipeline has gone on from its await
TurnJoined == turn.pc = "joined" /\ turn.result.ok

\* the events of the turn are those of its traces in execution order, then its
\* opinion event
TurnEventsInOrder ==
    TurnEvents = TraceEvents(turn.result.traces, instance.id)
                 \o <<<<"opinion", instance.id, 0>>>>

\* C25: once a turn that returned Ok has been joined, its events are, for every
\* executed tool call in execution order, tool_call and directly after it the
\* tool_result with the same id, and then the opinion event of the turn.
C25_ToolEventsThenOpinion == TurnJoined => TurnEventsInOrder

\* the same, for the turns whose previews are all cut on a character boundary
EventsInOrderUnlessPanic == (TurnJoined /\ pc # "panicked") => TurnEventsInOrder

(***************************************************************************)
(* An execution without an LLM configuration.                              *)
(***************************************************************************)
\* no round has begun: the state is the default one with round 0, no agent
\* instance is built, no message is persisted, no mode has run or returned
NoRoundBegun ==
    /\ state = DefaultState
    /\ state.round = 0
    /\ agents = <<>>
    /\ sink.messages = <<>>
    /\ mode_result = "none"
    /\ failures = 0
    /\ \A i \in 1..Len(sink.forwarded) : sink.forwarded[i].event_type \in {"status", "error"}
    /\ execution.shared_state = EmptyJson
    /\ execution.current_round = 0

MaxLinkHops == 2

\* the calls of the file tools that are followed
MaxCalls == 2

Dir == [kind |-> "dir", content |-> <<>>, to |-> <<>>]
File(content) == [kind |-> "file", content |-> content, to |-> <<>>]
Symlink(to) == [kind |-> "symlink", content |-> <<>>, to |-> to]

\* the directory the executor is rooted at: ToolExecutor.workspace_root
WorkspaceRoot == <<"ws">>

\* Path::parent and Path::file_name of a location with at least one name
parent(path) == SubSeq(path, 1, Len(path) - 1)
file_name(path) == path[Len(path)]

\* Path::starts_with: whole names are compared
starts_with(path, base) ==
    /\ Len(base) <= Len(path)
    /\ SubSeq(path, 1, Len(base)) = base

\* the locations at or below a location
Below(disk, base) == {p \in DOMAIN disk : starts_with(p, base)}

\* the kernel's path walk: every symlink on the way is followed, "." stays and
\* ".." steps up; the last name may be missing, every name before it has to be
\* a directory
RECURSIVE walk(_, _, _, _)
walk(disk, current, rest, hops) ==
    IF rest = <<>> THEN [ok |-> TRUE, path |-> current, present |-> TRUE]
    ELSE IF Head(rest) = "." THEN walk(disk, current, Tail(rest), hops)
    ELSE IF Head(rest) = ".."
    THEN walk(disk, IF current = <<>> THEN current ELSE parent(current), Tail(rest), hops)
    ELSE LET next == Append(current, Head(rest))
             lost == [ok |-> FALSE, path |-> next, present |-> FALSE]
         IN  IF next \notin DOMAIN disk
             THEN IF Len(rest) = 1 THEN [ok |-> TRUE, path |-> next, present |-> FALSE]
                  ELSE lost
             ELSE IF disk[next].kind = "symlink"
             THEN IF hops = 0 THEN lost
                  ELSE walk(disk, <<>>, disk[next].to \o Tail(rest), hops - 1)
             ELSE IF disk[next].kind = "file" /\ Len(rest) > 1 THEN lost
             ELSE walk(disk, next, Tail(rest), hops)

\* where a path lands when every symlink is followed
lands(disk, path) == walk(disk, <<>>, path, MaxLinkHops)

\* Path::exists: follows symlinks, a dangling link does not exist
exists(disk, path) == lands(disk, path).ok /\ lands(disk, path).present

\* Path::canonicalize
canonicalize(disk, path) ==
    IF exists(disk, path) THEN [ok |-> TRUE, path |-> lands(disk, path).path, error |-> ""]
    ELSE [ok |-> FALSE, path |-> path, error |-> "No such file or directory"]

\* std::fs::symlink_metadata: the symlinks before the last name are followed,
\* the last name is not
symlink_metadata(disk, path) ==
    LET dir == lands(disk, parent(path))
        at == Append(dir.path, file_name(path))
        whole == lands(disk, path)
    IN  IF path = <<>> THEN [ok |-> TRUE, path |-> path, node |-> Dir]
        ELSE IF file_name(path) \in {".", ".."}
        THEN IF whole.ok /\ whole.present
             THEN [ok |-> TRUE, path |-> whole.path, node |-> disk[whole.path]]
             ELSE [ok |-> FALSE, path |-> path, node |-> Dir]
        ELSE IF dir.ok /\ dir.present /\ disk[dir.path].kind = "dir" /\ at \in DOMAIN disk
        THEN [ok |-> TRUE, path |-> at, node |-> disk[at]]
        ELSE [ok |-> FALSE, path |-> at, node |-> Dir]

\* std::fs::metadata: what the path lands on
metadata(disk, path) ==
    IF exists(disk, path)
    THEN [ok |-> TRUE, path |-> lands(disk, path).path, node |-> disk[lands(disk, path).path]]
    ELSE [ok |-> FALSE, path |-> path, node |-> Dir]

\* a path as a tool call gives it: "/x/y" is absolute, the names may be "." and ".."
Given(absolute, names) == [absolute |-> absolute, names |-> names]

\* Err(AppError::Message(..)) and Ok(path)
Refused(error) == [ok |-> FALSE, error |-> error, path |-> <<>>]
Granted(path) == [ok |-> TRUE, error |-> "", path |-> path]

\* a guard that looks for ".." in the first name only
validate_relative_path_first_only(input) ==
    IF input.absolute THEN Refused("Absolute paths are not allowed")
    ELSE IF input.names # <<>> /\ input.names[1] = ".."
    THEN Refused("Parent dir '..' is not allowed")
    ELSE Granted(SelectSeq(input.names, LAMBDA name : name # "."))

\* validate_relative_path: only the text of the path is looked at
validate_relative_path(input) ==
    IF input.absolute THEN Refused("Absolute paths are not allowed")
    ELSE IF \E i \in 1..Len(input.names) : input.names[i] = ".."
    THEN Refused("Parent dir '..' is not allowed")
    ELSE Granted(SelectSeq(input.names, LAMBDA name : name # "."))

\* ensure_within_root
ensure_within_root(root, candidate) ==
    IF starts_with(candidate, root) THEN Granted(candidate)
    ELSE Refused("Path is outside workspace")

\* canonicalize_root
canonicalize_root(disk, root) ==
    LET canonical == canonicalize(disk, root)
    IN  IF ~canonical.ok THEN Refused(canonical.error)
        ELSE IF disk[canonical.path].kind # "dir"
        THEN Refused("Workspace root is not a directory")
        ELSE Granted(canonical.path)

\* resolve_existing_path
resolve_existing_path(disk, root, rel) ==
    LET candidate == root \o rel
        meta == symlink_metadata(disk, candidate)
        canonical == canonicalize(disk, candidate)
    IN  IF ~meta.ok THEN Refused("No such file or directory")
        ELSE IF meta.node.kind = "symlink" THEN Refused("Symlinks are not allowed")
        ELSE IF ~canonical.ok THEN Refused(canonical.error)
        ELSE ensure_within_root(root, canonical.path)

\* the disk with one location set
Put(disk, path, node) ==
    [p \in DOMAIN disk \cup {path} |-> IF p = path THEN node ELSE disk[p]]

\* the disk without some locations
Without(disk, paths) == [p \in DOMAIN disk \ paths |-> disk[p]]

\* the loop of ensure_safe_dir: the directories it makes stay when it fails
RECURSIVE safe_dir_loop(_, _, _, _)
safe_dir_loop(disk, current, rest, made) ==
    IF rest = <<>> THEN [ok |-> TRUE, error |-> "", path |-> current, disk |-> disk, made |-> made]
    ELSE LET next == Append(current, Head(rest))
             stop(error) == [ok |-> FALSE, error |-> error, path |-> next, disk |-> disk,
                             made |-> made]
         IN  Bind(symlink_metadata(disk, next), LAMBDA meta :
               IF exists(disk, next)
               THEN IF ~meta.ok THEN stop("No such file or directory")
                    ELSE IF meta.node.kind = "symlink"
                    THEN stop("Symlinks are not allowed in workspace paths")
                    ELSE IF meta.node.kind # "dir"
                    THEN stop("Path component is not a directory")
                    ELSE safe_dir_loop(disk, next, Tail(rest), made)
               \* create_dir: a name that is taken (by a dangling symlink) is an error
               ELSE IF meta.ok THEN stop("File exists")
               ELSE IF ~(lands(disk, next).ok) THEN stop("No such file or directory")
               ELSE Bind(Put(disk, meta.path, Dir), LAMBDA after :
                      safe_dir_loop(after, next, Tail(rest), made \cup {meta.path})))

\* ensure_safe_dir
ensure_safe_dir(disk, root, rel_dir) ==
    Bind(safe_dir_loop(disk, root, rel_dir, {}), LAMBDA walked :
      IF ~walked.ok THEN walked
      ELSE Bind(canonicalize(walked.disk, walked.path), LAMBDA canonical :
             IF ~canonical.ok THEN [walked EXCEPT !.ok = FALSE, !.error = canonical.error]
             ELSE IF ~ensure_within_root(root, canonical.path).ok
             THEN [walked EXCEPT !.ok = FALSE, !.error = "Path is outside workspace"]
             ELSE [walked EXCEPT !.path = canonical.path]))

\* resolve_write_path
resolve_write_path(disk, root, rel) ==
    IF rel = <<>>
    THEN [ok |-> FALSE, error |-> "Invalid path", path |-> root, disk |-> disk, made |-> {}]
    ELSE Bind(ensure_safe_dir(disk, root, parent(rel)), LAMBDA parent_full :
           LET full == Append(parent_full.path, file_name(rel))
               meta == symlink_metadata(parent_full.disk, full)
           IN  IF ~parent_full.ok THEN parent_full
               ELSE IF ~ensure_within_root(root, full).ok
               THEN [parent_full EXCEPT !.ok = FALSE, !.error = "Path is outside workspace"]
               ELSE IF exists(parent_full.disk, full) /\ meta.ok /\ meta.node.kind = "symlink"
               THEN [parent_full EXCEPT !.ok = FALSE,
                                        !.error = "Refusing to write through symlink"]
               ELSE [parent_full EXCEPT !.path = full])

(***************************************************************************)
(* The file tools (tools/builtin/files.rs, search.rs, text.rs).  Each      *)
(* returns whether it succeeded, its error, the disk it leaves and the     *)
(* locations it read, made, wrote, removed or moved.                       *)
(***************************************************************************)

NewLine == "\n"

\* Ok(..) and Err(AppError::Message(..)) of a tool, with what it did to the disk
Done(disk, touched, text) ==
    [ok |-> TRUE, error |-> "", disk |-> disk, touched |-> touched, text |-> text]
Failed(error, disk, touched) ==
    [ok |-> FALSE, error |-> error, disk |-> disk, touched |-> touched, text |-> <<>>]

\* str::lines: the text cut at its line ends, without a last empty piece
RECURSIVE lines(_)
lines(text) ==
    IF text = <<>> THEN <<>>
    ELSE LET ends == {i \in 1..Len(text) : text[i] = NewLine}
             first == CHOOSE i \in ends : \A j \in ends : i <= j
         IN  IF ends = {} THEN <<text>>
             ELSE <<SubSeq(text, 1, first - 1)>> \o lines(SubSeq(text, first + 1, Len(text)))

\* lines.join("\n")
RECURSIVE join(_)
join(pieces) ==
    IF pieces = <<>> THEN <<>>
    ELSE IF Len(pieces) = 1 THEN pieces[1]
    ELSE pieces[1] \o <<NewLine>> \o join(Tail(pieces))

\* str::ends_with('\n')
ends_with_newline(text) == text # <<>> /\ text[Len(text)] = NewLine

\* the start of every tool: canonicalize_root(root)?, then
\* validate_relative_path(path)? for each path in turn
checked_paths(disk, root, paths) ==
    Bind(canonicalize_root(disk, root), LAMBDA canonical_root :
      LET rels == [i \in 1..Len(paths) |-> validate_relative_path(paths[i])]
          bad == {i \in 1..Len(paths) : ~rels[i].ok}
          first == CHOOSE i \in bad : \A j \in bad : i <= j
      IN  IF ~canonical_root.ok THEN [ok |-> FALSE, error |-> canonical_root.error]
          ELSE IF bad # {} THEN [ok |-> FALSE, error |-> rels[first].error]
          ELSE [ok |-> TRUE, error |-> "", root |-> canonical_root.path,
                rel |-> [i \in 1..Len(paths) |-> rels[i].path]])

\* read_file, for a text within max_bytes
read_file(disk, root, path) ==
    Bind(checked_paths(disk, root, <<path>>), LAMBDA checked :
      IF ~checked.ok THEN Failed(checked.error, disk, {})
      ELSE Bind(resolve_existing_path(disk, checked.root, checked.rel[1]), LAMBDA full :
             IF ~full.ok THEN Failed(full.error, disk, {})
             ELSE Bind(metadata(disk, full.path), LAMBDA meta :
                    IF ~meta.ok THEN Failed("No such file or directory", disk, {})
                    ELSE IF meta.node.kind # "file" THEN Failed("Path is not a file", disk, {})
                    ELSE Done(disk, {meta.path}, meta.node.content))))

\* get_file_info
get_file_info(disk, root, path) ==
    Bind(checked_paths(disk, root, <<path>>), LAMBDA checked :
      IF ~checked.ok THEN Failed(checked.error, disk, {})
      ELSE Bind(resolve_existing_path(disk, checked.root, checked.rel[1]), LAMBDA full :
             IF ~full.ok THEN Failed(full.error, disk, {})
             ELSE Bind(metadata(disk, full.path), LAMBDA meta :
                    IF ~meta.ok THEN Failed("No such file or directory", disk, {})
                    ELSE Done(disk, {meta.path}, <<>>))))

\* std::fs::write and OpenOptions::open(create, append) + write_all: the file
\* the path lands on is opened, made when it is missing
write_through(disk, full, content, append, made) ==
    Bind(lands(disk, full), LAMBDA land :
      LET old == IF append /\ land.present THEN disk[land.path].content ELSE <<>>
      IN  IF ~land.ok THEN Failed("No such file or directory", disk, made)
          ELSE IF land.present /\ disk[land.path].kind = "dir"
          THEN Failed("Is a directory", disk, made)
          ELSE Done(Put(disk, land.path, File(old \o content)), made \cup {land.path}, <<>>))

\* write_file
write_file(disk, root, path, content) ==
    Bind(checked_paths(disk, root, <<path>>), LAMBDA checked :
      IF ~checked.ok THEN Failed(checked.error, disk, {})
      ELSE Bind(resolve_write_path(disk, checked.root, checked.rel[1]), LAMBDA full :
             IF ~full.ok THEN Failed(full.error, full.disk, full.made)
             ELSE write_through(full.disk, full.path, content, FALSE, full.made)))

\* append_to_file
append_to_file(disk, root, path, content) ==
    Bind(checked_paths(disk, root, <<path>>), LAMBDA checked :
      IF ~checked.ok THEN Failed(checked.error, disk, {})
      ELSE Bind(resolve_write_path(disk, checked.root, checked.rel[1]), LAMBDA full :
             IF ~full.ok THEN Failed(full.error, full.disk, full.made)
             ELSE write_through(full.disk, full.path, content, TRUE, full.made)))

\* create_directory
create_directory(disk, root, path) ==
    Bind(checked_paths(disk, root, <<path>>), LAMBDA checked :
      IF ~checked.ok THEN Failed(checked.error, disk, {})
      ELSE Bind(ensure_safe_dir(disk, checked.root, checked.rel[1]), LAMBDA dir :
             IF ~dir.ok THEN Failed(dir.error, dir.disk, dir.made)
             ELSE Done(dir.disk, dir.made, <<>>)))

\* delete_file
delete_file(disk, root, path) ==
    Bind(checked_paths(disk, root, <<path>>), LAMBDA checked :
      IF ~checked.ok THEN Failed(checked.error, disk, {})
      ELSE Bind(resolve_existing_path(disk, checked.root, checked.rel[1]), LAMBDA full :
             IF ~full.ok THEN Failed(full.error, disk, {})
             ELSE Bind(metadata(disk, full.path), LAMBDA meta :
                    IF ~meta.ok THEN Failed("No such file or directory", disk, {})
                    ELSE IF meta.node.kind = "file"
                    THEN Done(Without(disk, {meta.path}), {meta.path}, <<>>)
                    ELSE IF Below(disk, meta.path) # {meta.path}
                    THEN Failed("Refusing to delete non-empty directory", disk, {meta.path})
                    ELSE Done(Without(disk, {meta.path}), {meta.path}, <<>>))))

\* std::fs::rename: the symlink a name is, is replaced, not followed
rename(disk, src, dst, made) ==
    LET moved == Below(disk, src)
        kept == (DOMAIN disk \ moved) \ {dst}
        old(p) == src \o SubSeq(p, Len(dst) + 1, Len(p))
        is_dir(p) == disk[p].kind = "dir"
    IN  IF src = dst THEN Done(disk, made \cup {src}, <<>>)
        ELSE IF starts_with(dst, src) THEN Failed("Invalid argument", disk, made)
        ELSE IF dst \in DOMAIN disk /\ is_dir(dst) /\ ~is_dir(src)
        THEN Failed("Is a directory", disk, made)
        ELSE IF dst \in DOMAIN disk /\ ~is_dir(dst) /\ is_dir(src)
        THEN Failed("Not a directory", disk, made)
        ELSE IF dst \in DOMAIN disk /\ Below(disk, dst) # {dst}
        THEN Failed("Directory not empty", disk, made)
        ELSE Done([p \in kept \cup {dst \o SubSeq(q, Len(src) + 1, Len(q)) : q \in moved} |->
                     IF p \in kept THEN disk[p] ELSE disk[old(p)]],
                  made \cup {src, dst}, <<>>)

\* rename_file
rename_file(disk, root, old_path, new_path) ==
    Bind(checked_paths(disk, root, <<old_path, new_path>>), LAMBDA checked :
      IF ~checked.ok THEN Failed(checked.error, disk, {})
      ELSE Bind(resolve_existing_path(disk, checked.root, checked.rel[1]), LAMBDA src :
             IF ~src.ok THEN Failed(src.error, disk, {})
             ELSE Bind(resolve_write_path(disk, checked.root, checked.rel[2]), LAMBDA dst :
                    IF ~dst.ok THEN Failed(dst.error, dst.disk, dst.made)
                    ELSE rename(dst.disk, src.path, dst.path, dst.made))))

\* u64::saturating_sub(1)
saturating_sub_1(n) == IF n = 0 THEN 0 ELSE n - 1

\* Vec::drain(s..=end_idx) and the text put together again
without_lines(text, s, end_idx) ==
    Bind(lines(text), LAMBDA all :
      Bind(SubSeq(all, 1, s) \o SubSeq(all, end_idx + 2, Len(all)), LAMBDA left :
        IF ends_with_newline(text) THEN join(left) \o <<NewLine>> ELSE join(left)))

\* a delete_lines that reads the file before it looks at its line numbers
delete_lines_checks_late(disk, root, path, start, end) ==
    Bind(read_file(disk, root, path), LAMBDA read :
      IF ~read.ok THEN read
      ELSE IF end < start THEN Failed("end must be >= start", disk, read.touched)
      ELSE Done(disk, read.touched, <<>>))

\* delete_lines
delete_lines(disk, root, path, start, end) ==
    IF end < start THEN Failed("end must be >= start", disk, {})
    ELSE Bind(read_file(disk, root, path), LAMBDA read :
           LET count == Len(lines(read.text))
               s == saturating_sub_1(start)
               e == saturating_sub_1(end)
               end_idx == IF e < saturating_sub_1(count) THEN e ELSE saturating_sub_1(count)
           IN  IF ~read.ok THEN read
               ELSE IF s >= count THEN Done(disk, read.touched, <<>>)
               ELSE Bind(without_lines(read.text, s, end_idx), LAMBDA next :
                      Bind(write_file(disk, root, path, next), LAMBDA written :
                        [written EXCEPT !.touched = @ \cup read.touched])))

\* diff_files: the two files are read one after the other
diff_files(disk, root, path1, path2) ==
    Bind(read_file(disk, root, path1), LAMBDA a :
      IF ~a.ok THEN a
      ELSE Bind(read_file(disk, root, path2), LAMBDA b :
             IF ~b.ok THEN Failed(b.error, disk, a.touched)
             ELSE Done(disk, a.touched \cup b.touched, <<>>)))

(***************************************************************************)
(* The file tools at work on one workspace directory: the calls a turn's   *)
(* tool requests make, one after the other, on a disk where symlinks lie   *)
(* in the way.                                                             *)
(***************************************************************************)

\* the texts the calls write
WrittenTexts == {<<"z", NewLine>>}

\* the line numbers a delete_lines call gives
LineNumbers == 0..2

\* the disk at the start: the workspace /ws and, beside it, /out
SeedDisk ==
    LET at == [p \in {<<>>, <<"ws">>, <<"ws", "d">>, <<"out">>} |-> Dir]
        files == [p \in {<<"ws", "a">>, <<"ws", "d", "b">>, <<"out", "s">>} |->
                    IF p = <<"ws", "d", "b">> THEN File(<<"y">>)
                    ELSE File(<<"x", NewLine, "y", NewLine>>)]
        links == [p \in {<<"ws", "in">>, <<"ws", "lf">>, <<"ws", "ex">>, <<"ws", "xf">>,
                         <<"ws", "dg">>, <<"ws", "di">>} |->
                    CASE p = <<"ws", "in">> -> Symlink(<<"ws", "d">>)
                      [] p = <<"ws", "lf">> -> Symlink(<<"ws", "a">>)
                      [] p = <<"ws", "ex">> -> Symlink(<<"out">>)
                      [] p = <<"ws", "xf">> -> Symlink(<<"out", "s">>)
                      [] p = <<"ws", "dg">> -> Symlink(<<"out", "new">>)
                      [] p = <<"ws", "di">> -> Symlink(<<"ws", "gone">>)]
    IN  [p \in DOMAIN at \cup DOMAIN files \cup DOMAIN links |->
           IF p \in DOMAIN at THEN at[p]
           ELSE IF p \in DOMAIN files THEN files[p] ELSE links[p]]

\* a workspace without entries, and /out beside it
EmptyWorkspace ==
    [p \in {<<>>, <<"ws">>, <<"out">>, <<"out", "s">>} |->
       IF p = <<"out", "s">> THEN File(<<"x", NewLine, "y", NewLine>>) ELSE Dir]

\* the paths the calls give: plain ones, ones through a symlink in the middle
\* or at the end, ones with "..", an absolute one
PlainPaths == {Given(FALSE, <<"a">>), Given(FALSE, <<"d">>), Given(FALSE, <<"d", "b">>),
               Given(FALSE, <<".", "a">>), Given(FALSE, <<"n">>), Given(FALSE, <<"e", "n">>)}
LinkPaths == {Given(FALSE, <<"in", "b">>), Given(FALSE, <<"in", "n">>),
              Given(FALSE, <<"ex", "s">>), Given(FALSE, <<"dg", "n">>),
              Given(FALSE, <<"in">>), Given(FALSE, <<"lf">>), Given(FALSE, <<"xf">>),
              Given(FALSE, <<"dg">>), Given(FALSE, <<"di">>)}
RefusedPaths == {Given(FALSE, <<"d", "..", "a">>), Given(FALSE, <<"..", "out", "s">>),
                 Given(FALSE, <<"a", "..">>), Given(TRUE, <<"out", "s">>),
                 Given(TRUE, <<"ws", "a">>)}
GivenPaths == PlainPaths \cup LinkPaths \cup RefusedPaths

\* the paths that name the workspace directory itself: "" and "."
RootPaths == {Given(FALSE, <<>>), Given(FALSE, <<".">>)}

\* the pairs of paths rename_file and diff_files are called with
OldPaths == {Given(FALSE, <<"a">>), Given(FALSE, <<"d">>), Given(FALSE, <<"in", "b">>),
             Given(FALSE, <<"lf">>), Given(FALSE, <<"d", "..", "a">>)}
NewPaths == {Given(FALSE, <<"n">>), Given(FALSE, <<"d", "n">>), Given(FALSE, <<"dg">>),
             Given(FALSE, <<"di">>), Given(FALSE, <<"xf">>), Given(FALSE, <<"in", "n">>),
             Given(FALSE, <<"..", "out", "s">>)}
DiffPaths == {Given(FALSE, <<"a">>), Given(FALSE, <<"in", "b">>), Given(FALSE, <<"xf">>),
              Given(FALSE, <<"..", "out", "s">>)}
EditPaths == {Given(FALSE, <<"a">>), Given(FALSE, <<"in", "b">>), Given(FALSE, <<"dg">>),
              Given(FALSE, <<"d", "..", "a">>)}

\* everything but the workspace directory
sandboxFrame ==
    <<team, mode, provider, execution, sink, pc, invocations, failures, topic, target,
      state, agents, own_opinions, mode_result, pl, db, rt, completion_log, instance, turn,
      workers, fsys, tasks>>

\* execute: the call's ToolResult carries ok and the error of the tool, the
\* disk is what the tool left
called(tool, paths, numbers, result) ==
    Bind(result, LAMBDA outcome :
      [disk |-> outcome.disk, calls |-> sandbox.calls + 1,
       last |-> <<[tool |-> tool, paths |-> paths, numbers |-> numbers,
                   ok |-> outcome.ok, error |-> outcome.error,
                   touched |-> outcome.touched, before |-> sandbox.disk]>>])

ReadFile ==
    /\ sandbox.calls < MaxCalls
    /\ \E path \in GivenPaths :
         sandbox' = called("read_file", <<path>>, <<>>,
                           read_file(sandbox.disk, WorkspaceRoot, path))
    /\ UNCHANGED sandboxFrame

GetFileInfo ==
    /\ sandbox.calls < MaxCalls
    /\ \E path \in GivenPaths :
         sandbox' = called("get_file_info", <<path>>, <<>>,
                           get_file_info(sandbox.disk, WorkspaceRoot, path))
    /\ UNCHANGED sandboxFrame

WriteFile ==
    /\ sandbox.calls < MaxCalls
    /\ \E path \in GivenPaths, content \in WrittenTexts :
         sandbox' = called("write_file", <<path>>, <<>>,
                           write_file(sandbox.disk, WorkspaceRoot, path, content))
    /\ UNCHANGED sandboxFrame

AppendToFile ==
    /\ sandbox.calls < MaxCalls
    /\ \E path \in GivenPaths, content \in WrittenTexts :
         sandbox' = called("append_to_file", <<path>>, <<>>,
                           append_to_file(sandbox.disk, WorkspaceRoot, path, content))
    /\ UNCHANGED sandboxFrame

CreateDirectory ==
    /\ sandbox.calls < MaxCalls
    /\ \E path \in GivenPaths :
         sandbox' = called("create_directory", <<path>>, <<>>,
                           create_directory(sandbox.disk, WorkspaceRoot, path))
    /\ UNCHANGED sandboxFrame

DeleteFile ==
    /\ sandbox.calls < MaxCalls
    /\ \E path \in GivenPaths :
         sandbox' = called("delete_file", <<path>>, <<>>,
                           delete_file(sandbox.disk, WorkspaceRoot, path))
    /\ UNCHANGED sandboxFrame

RenameFile ==
    /\ sandbox.calls < MaxCalls
    /\ \E old_path \in OldPaths, new_path \in NewPaths :
         sandbox' = called("rename_file", <<old_path, new_path>>, <<>>,
                           rename_file(sandbox.disk, WorkspaceRoot, old_path, new_path))
    /\ UNCHANGED sandboxFrame

DeleteLines ==
    /\ sandbox.calls < MaxCalls
    /\ \E path \in EditPaths, start \in LineNumbers, end \in LineNumbers :
         sandbox' = called("delete_lines", <<path>>, <<start, end>>,
                           delete_lines(sandbox.disk, WorkspaceRoot, path, start, end))
    /\ UNCHANGED sandboxFrame

DiffFiles ==
    /\ sandbox.calls < MaxCalls
    /\ \E path1 \in DiffPaths, path2 \in DiffPaths :
         sandbox' = called("diff_files", <<path1, path2>>, <<>>,
                           diff_files(sandbox.disk, WorkspaceRoot, path1, path2))
    /\ UNCHANGED sandboxFrame

\* an execution at rest, its tools rooted at the workspace directory
SandboxInit ==
    /\ mode = "pipeline"
    /\ team = <<Members[1]>>
    /\ provider = [a \in AgentIds |-> Profiles[1]]
    /\ execution = [status |-> "pending", initial_input |-> "", llm |-> TRUE,
                    shared_state |-> EmptyJson, current_round |-> 0,
                    tokens_used |-> Zero, error_message |-> FALSE]
    /\ sink = [messages |-> <<>>, msg_seq |-> 0, forwarded |-> <<>>, event_seq |-> 0]
    /\ pc = "idle"
    /\ invocations = 0
    /\ failures = 0
    /\ topic = ""
    /\ target = NoAgent
    /\ state = DefaultState
    /\ agents = <<>>
    /\ own_opinions = [a \in AgentIds |-> <<>>]
    /\ mode_result = "none"
    /\ pl = PlIdle
    /\ db = DbIdle
    /\ rt = RtIdle
    /\ completion_log = <<>>
    /\ instance = NoInstance
    /\ turn = TurnIdle
    /\ workers = NoWorkers
    /\ fsys = SeedFiles
    /\ tasks = NoTasks
    /\ sandbox = [disk |-> SeedDisk, calls |-> 0, last |-> <<>>]

SandboxNext ==
    \/ ReadFile \/ GetFileInfo \/ WriteFile \/ AppendToFile \/ CreateDirectory
    \/ DeleteFile \/ RenameFile \/ DeleteLines \/ DiffFiles

SandboxSpec == SandboxInit /\ [][SandboxNext]_vars

(***************************************************************************)
(* The sandbox: what a call of a file tool may reach (SandboxSpec).        *)
(***************************************************************************)

\* a call has been made; the call made last
Called == sandbox.last # <<>>
LastCall == sandbox.last[1]

\* the location lies in the workspace directory
InWorkspace(location) ==
    /\ Len(location) >= Len(WorkspaceRoot)
    /\ \A i \in 1..Len(WorkspaceRoot) : location[i] = WorkspaceRoot[i]

\* the names of a given path that name something: "." names nothing new
Names(path) == SelectSeq(path.names, LAMBDA name : name # ".")

\* a name of the given relative path, the last or one before it, was a symlink
\* on the disk the call found
ThroughSymlink(disk, path) ==
    /\ ~path.absolute
    /\ \A i \in 1..Len(path.names) : path.names[i] # ".."
    /\ \E k \in 1..Len(Names(path)) :
         LET found == symlink_metadata(disk, WorkspaceRoot \o SubSeq(Names(path), 1, k))
         IN  found.ok /\ found.node.kind = "symlink"

\* the path has a ".." segment, or is absolute
Traversal(path) == path.absolute \/ \E i \in 1..Len(path.names) : path.names[i] = ".."

\* C27: every call that succeeds has read, made, written, removed or moved
\* only locations inside the workspace directory, whatever symlinks lie there.
C27_SandboxContainment ==
    (Called /\ LastCall.ok) => \A location \in LastCall.touched : InWorkspace(location)

\* the calls that succeed and leave the workspace directory are writes through
\* a symlink that is the last name of the path and dangles
EscapesOnlyThroughDanglingLink ==
    (Called /\ LastCall.ok /\ \E location \in LastCall.touched : ~InWorkspace(location))
        => /\ LastCall.tool \in {"write_file", "append_to_file"}
           /\ LET at == WorkspaceRoot \o Names(LastCall.paths[1])
              IN  /\ at \in DOMAIN LastCall.before
                  /\ LastCall.before[at].kind = "symlink"
                  /\ LastCall.before[at].to \notin DOMAIN LastCall.before

\* the tools C28 names, and which of a call's paths is read and which written
GuardedTools ==
    {"read_file", "get_file_info", "delete_file", "rename_file", "write_file",
     "append_to_file", "create_directory"}
ReadType(call, i) ==
    \/ call.tool \in {"read_file", "get_file_info", "delete_file"}
    \/ call.tool = "rename_file" /\ i = 1
WriteType(call, i) ==
    \/ call.tool \in {"write_file", "append_to_file", "create_directory"}
    \/ call.tool = "rename_file" /\ i = 2

\* the last name of the given path was a symlink on the disk the call found
EndsInSymlink(disk, path) ==
    LET found == symlink_metadata(disk, WorkspaceRoot \o Names(path))
    IN  Names(path) # <<>> /\ found.ok /\ found.node.kind = "symlink"

\* C28: a call of a read-type or write-type tool whose path has a symlink as
\* its last name or as a name before it fails, wherever the link points.
C28_SymlinkFails ==
    (/\ Called
     /\ LastCall.tool \in GuardedTools
     /\ \E i \in DOMAIN LastCall.paths : ThroughSymlink(LastCall.before, LastCall.paths[i]))
        => ~LastCall.ok

\* the two ways through the guard: a path that is read by way of a symlink
\* before its last name which leads to a place inside the workspace, and a path
\* that is written, appended to or renamed to whose last name is a dangling
\* symlink
Unguarded(call, i) ==
    LET path == call.paths[i]
        whole == lands(call.before, WorkspaceRoot \o Names(path))
    IN  \/ /\ ReadType(call, i)
           /\ ~EndsInSymlink(call.before, path)
           /\ whole.ok /\ whole.present /\ InWorkspace(whole.path)
        \/ /\ WriteType(call, i)
           /\ call.tool # "create_directory"
           /\ EndsInSymlink(call.before, path)
           /\ ~(whole.ok /\ whole.present)

\* every other symlink makes the call fail
SymlinkFailsWhereGuarded ==
    (/\ Called
     /\ LastCall.tool \in GuardedTools
     /\ \E i \in DOMAIN LastCall.paths :
          /\ ThroughSymlink(LastCall.before, LastCall.paths[i])
          /\ ~Unguarded(LastCall, i))
        => ~LastCall.ok

\* calls that get through either way, and succeed
ReadThroughInnerLink ==
    /\ Called /\ LastCall.ok /\ LastCall.tool = "read_file"
    /\ ThroughSymlink(LastCall.before, LastCall.paths[1])
WriteThroughDanglingLink ==
    /\ Called /\ LastCall.ok /\ LastCall.tool = "write_file"
    /\ EndsInSymlink(LastCall.before, LastCall.paths[1])
RenameOntoDanglingLink ==
    /\ Called /\ LastCall.ok /\ LastCall.tool = "rename_file"
    /\ EndsInSymlink(LastCall.before, LastCall.paths[2])

\* some path of the call has a ".." segment or is absolute
TraversalCall == Called /\ \E i \in DOMAIN LastCall.paths : Traversal(LastCall.paths[i])

SecondPathRefused ==
    /\ LastCall.tool = "diff_files"
    /\ ~Traversal(LastCall.paths[1])
    /\ Traversal(LastCall.paths[2])

C30_DeleteLinesValidates ==
    (Called /\ LastCall.tool = "delete_lines" /\ LastCall.numbers[1] > LastCall.numbers[2])
        => /\ ~LastCall.ok
           /\ LastCall.error = "end must be >= start"
           /\ sandbox.disk = LastCall.before
           /\ LastCall.touched = {}

\* lines 2 to 1 of the file a, which has two lines, are asked to go
C30_Witness ==
    /\ Called
    /\ LastCall.tool = "delete_lines"
    /\ LastCall.paths = <<Given(FALSE, <<"a">>)>>
    /\ LastCall.numbers = <<2, 1>>
    /\ LastCall.before[<<"ws", "a">>] = File(<<"x", NewLine, "y", NewLine>>)
    /\ ~LastCall.ok

\* delete_lines does delete: line 1 of the file a goes, line 2 stays
LinesDeleted ==
    /\ Called /\ LastCall.ok
    /\ LastCall.tool = "delete_lines"
    /\ LastCall.numbers = <<1, 1>>
    /\ LastCall.before[<<"ws", "a">>] = File(<<"x", NewLine, "y", NewLine>>)
    /\ <<"ws", "a">> \in DOMAIN sandbox.disk
    /\ sandbox.disk[<<"ws", "a">>] = File(<<"y", NewLine>>)

(***************************************************************************)
(* Reading and searching under ceilings (tools/builtin/files.rs,           *)
(* search.rs, security.rs read_to_string_limited, the arms of             *)
(* execute_blocking).  A character is one byte.  A pattern for file names  *)
(* is the set of names it matches; a pattern for lines is a character the  *)
(* line has to hold.                                                       *)
(***************************************************************************)

\* read_to_string_limited: the first max_bytes bytes; its flag tells of bytes
\* that were no UTF-8, never of a cut
read_to_string_limited(text, max_bytes) ==
    [text |-> SubSeq(text, 1, IF Len(text) < max_bytes THEN Len(text) ELSE max_bytes),
     lossy |-> FALSE]

\* files::read_file without offset and limit
read_file_limited(disk, root, path, max_bytes) ==
    Bind(read_file(disk, root, path), LAMBDA whole :
      LET total_size == Len(whole.text)
          read(text, truncated) ==
              [ok |-> TRUE, error |-> "", text |-> text, total_size |-> total_size,
               truncated |-> truncated]
      IN  IF ~whole.ok
          THEN [ok |-> FALSE, error |-> whole.error, text |-> <<>>, total_size |-> 0,
                truncated |-> FALSE]
          ELSE IF 0 >= total_size THEN read(<<>>, FALSE)
          ELSE IF max_bytes = 0 THEN read(<<>>, TRUE)
          ELSE read(read_to_string_limited(whole.text, max_bytes).text,
                    total_size > max_bytes))

\* std::fs::read_dir: the entries of a directory, in the order the system
\* hands them out
read_dir(disk, dir, order) ==
    LET present == SelectSeq(order, LAMBDA name : Append(dir, name) \in DOMAIN disk)
    IN  [i \in 1..Len(present) |-> Append(dir, present[i])]

\* the loop of walk_files: directories are popped from the stack, files are
\* collected until there are max_files of them
RECURSIVE walk_loop(_, _, _, _, _)
walk_loop(disk, stack, out, max_files, order) ==
    IF stack = <<>> \/ Len(out) >= max_files THEN out
    ELSE Bind(read_dir(disk, stack[Len(stack)], order), LAMBDA entries :
           LET room == max_files - Len(out)
               files == {i \in 1..Len(entries) : disk[entries[i]].kind = "file"}
               full == {i \in files : Cardinality({j \in files : j <= i}) = room}
               seen == IF full = {} THEN entries
                       ELSE SubSeq(entries, 1, CHOOSE i \in full : TRUE)
           IN  walk_loop(disk,
                         SubSeq(stack, 1, Len(stack) - 1)
                           \o SelectSeq(seen, LAMBDA entry : disk[entry].kind = "dir"),
                         out \o SelectSeq(seen, LAMBDA entry : disk[entry].kind = "file"),
                         max_files, order))

\* walk_files
walk_files(disk, root, start_rel, max_files, order) ==
    Bind(canonicalize_root(disk, root), LAMBDA canonical_root :
      IF ~canonical_root.ok THEN [ok |-> FALSE, error |-> canonical_root.error, files |-> <<>>]
      ELSE Bind(resolve_existing_path(disk, canonical_root.path, start_rel), LAMBDA start :
             IF ~start.ok THEN [ok |-> FALSE, error |-> start.error, files |-> <<>>]
             ELSE IF disk[start.path].kind # "dir"
             THEN [ok |-> FALSE, error |-> "Search path is not a directory", files |-> <<>>]
             ELSE [ok |-> TRUE, error |-> "",
                   files |-> walk_loop(disk, <<start.path>>, <<>>, max_files, order)]))

\* the start of search_files and search_content: the directory to search,
\* the workspace itself when no path is given
search_dir(disk, root, path) ==
    Bind(canonicalize_root(disk, root), LAMBDA canonical_root :
      IF ~canonical_root.ok THEN Refused(canonical_root.error)
      ELSE IF path.names = <<>> THEN Granted(<<>>)
      ELSE validate_relative_path(path))

\* file.strip_prefix(&root)
strip_prefix(file, root) == SubSeq(file, Len(root) + 1, Len(file))

\* the prefix of a list that a loop with `if out.len() >= max { break }` keeps
up_to(found, max) == SubSeq(found, 1, IF Len(found) < max THEN Len(found) ELSE max)

\* the JSON a tool hands back: the keys of the object (an array has none), its
\* "content", its "truncated" and the entries it lists
Json(keys, content, truncated, listed) ==
    [keys |-> keys, content |-> content, truncated |-> truncated, listed |-> listed]

\* the arm "read_file" of execute_blocking: {"path", "content", "truncated"}
read_file_arm(disk, root, path, max_read_bytes) ==
    Bind(read_file_limited(disk, root, path, max_read_bytes), LAMBDA read :
      IF ~read.ok THEN [ok |-> FALSE, error |-> read.error, output |-> Json({}, <<>>, FALSE, <<>>)]
      ELSE [ok |-> TRUE, error |-> "",
            output |-> Json({"path", "content", "truncated"}, read.text, read.truncated, <<>>)])

\* search_files and its arm of execute_blocking: {"matches": [..]}
search_files(disk, root, pattern, path, max_matches, max_files, order) ==
    Bind(search_dir(disk, root, path), LAMBDA rel_dir :
      IF ~rel_dir.ok THEN [ok |-> FALSE, error |-> rel_dir.error, output |-> Json({}, <<>>, FALSE, <<>>)]
      ELSE Bind(walk_files(disk, root, rel_dir.path, max_files, order), LAMBDA walked :
             IF ~walked.ok THEN [ok |-> FALSE, error |-> walked.error, output |-> Json({}, <<>>, FALSE, <<>>)]
             ELSE LET hits == SelectSeq(walked.files, LAMBDA f : file_name(f) \in pattern)
                      rels == [i \in 1..Len(hits) |-> strip_prefix(hits[i], canonicalize_root(disk, root).path)]
                  IN  [ok |-> TRUE, error |-> "",
                       output |-> Json({"matches"}, <<>>, FALSE, up_to(rels, max_matches))]))

\* the lines of one file that search_content reports: the file is read up to
\* max_read_bytes, and not at all when it is longer than ten times that
content_matches(disk, root, rel, pattern, max_read_bytes) ==
    Bind(read_file_limited(disk, root, Given(FALSE, rel), max_read_bytes), LAMBDA read :
      IF Len(disk[root \o rel].content) > max_read_bytes * 10 THEN <<>>
      ELSE LET text == lines(read.text)
               hits == SelectSeq([i \in 1..Len(text) |-> i],
                                 LAMBDA i : \E c \in 1..Len(text[i]) : text[i][c] = pattern)
           IN  [i \in 1..Len(hits) |-> [path |-> rel, line |-> hits[i]]])

RECURSIVE content_loop(_, _, _, _, _, _)
\* the loop of search_content over the files of the walk
content_loop(disk, root, files, pattern, max_read_bytes, out) ==
    IF files = <<>> THEN out
    ELSE content_loop(disk, root, Tail(files), pattern, max_read_bytes,
                      out \o content_matches(disk, root, strip_prefix(Head(files), root),
                                             pattern, max_read_bytes))

\* search_content and its arm of execute_blocking: the array of the matches
search_content(disk, root, pattern, path, max_matches, max_files, max_read_bytes, order) ==
    Bind(search_dir(disk, root, path), LAMBDA rel_dir :
      IF ~rel_dir.ok THEN [ok |-> FALSE, error |-> rel_dir.error, output |-> Json({}, <<>>, FALSE, <<>>)]
      ELSE Bind(walk_files(disk, root, rel_dir.path, max_files, order), LAMBDA walked :
             IF ~walked.ok THEN [ok |-> FALSE, error |-> walked.error, output |-> Json({}, <<>>, FALSE, <<>>)]
             ELSE [ok |-> TRUE, error |-> "",
                   output |-> Json({}, <<>>, FALSE,
                                   up_to(content_loop(disk, canonicalize_root(disk, root).path,
                                                      walked.files, pattern, max_read_bytes, <<>>),
                                         max_matches))]))

(***************************************************************************)
(* Reads and searches of a workspace under an executor's ToolLimits.       *)
(***************************************************************************)

\* ToolLimits an executor may be given (with_limits)
ReadCeilings == {1, 8, 64}
MatchCeilings == {1, 64}
FileCeilings == {2, 64}

\* the orders in which read_dir may hand out the names
NameOrders == {<<"a", "big", "d", "b", "c", "lf">>, <<"lf", "c", "b", "d", "big", "a">>}

\* a workspace with a long file, a directory below it and a symlink
SearchDisk ==
    LET at == [p \in {<<>>, <<"ws">>, <<"ws", "d">>} |-> Dir]
        files == [p \in {<<"ws", "a">>, <<"ws", "big">>, <<"ws", "d", "b">>, <<"ws", "d", "c">>} |->
                    CASE p = <<"ws", "a">> -> File(<<"x", NewLine, "y", NewLine>>)
                      [] p = <<"ws", "big">> ->
                           File(<<"y", NewLine, "y", NewLine, "y", NewLine, "y", NewLine,
                                  "y", NewLine, "x", NewLine>>)
                      [] p = <<"ws", "d", "b">> -> File(<<"y">>)
                      [] p = <<"ws", "d", "c">> -> File(<<"x", NewLine>>)]
    IN  [p \in DOMAIN at \cup DOMAIN files \cup {<<"ws", "lf">>} |->
           IF p \in DOMAIN at THEN at[p]
           ELSE IF p \in DOMAIN files THEN files[p] ELSE Symlink(<<"ws", "a">>)]

\* what the calls ask for
ReadPaths == {Given(FALSE, <<"a">>), Given(FALSE, <<"big">>), Given(FALSE, <<"d", "b">>),
              Given(FALSE, <<"d">>), Given(FALSE, <<"n">>)}
SearchPaths == {Given(FALSE, <<>>), Given(FALSE, <<"d">>), Given(FALSE, <<"a">>),
                Given(FALSE, <<"lf">>), Given(FALSE, <<"..">>)}
NamePatterns == {{"a", "big", "b", "c"}, {"b", "c"}}
LinePatterns == {"x", "y"}

\* execute, for a tool that reads: the ToolResult and what was asked
searched(tool, path, pattern, result) ==
    Bind(result, LAMBDA outcome :
      [sandbox EXCEPT !.calls = @ + 1,
                      !.last = <<[tool |-> tool, path |-> path, pattern |-> pattern,
                                  ok |-> outcome.ok, error |-> outcome.error,
                                  output |-> outcome.output]>>])

ReadFileLimited ==
    /\ sandbox.calls < MaxCalls
    /\ \E path \in ReadPaths :
         sandbox' = searched("read_file", path, {},
                             read_file_arm(sandbox.disk, WorkspaceRoot, path,
                                           sandbox.limits.max_read_bytes))
    /\ UNCHANGED sandboxFrame

SearchFiles ==
    /\ sandbox.calls < MaxCalls
    /\ \E path \in SearchPaths, pattern \in NamePatterns :
         sandbox' = searched("search_files", path, pattern,
                             search_files(sandbox.disk, WorkspaceRoot, pattern, path,
                                          sandbox.limits.max_search_matches,
                                          sandbox.limits.max_search_files, sandbox.order))
    /\ UNCHANGED sandboxFrame

SearchContent ==
    /\ sandbox.calls < MaxCalls
    /\ \E path \in SearchPaths, pattern \in LinePatterns :
         sandbox' = searched("search_content", path, pattern,
                             search_content(sandbox.disk, WorkspaceRoot, pattern, path,
                                            sandbox.limits.max_search_matches,
                                            sandbox.limits.max_search_files,
                                            sandbox.limits.max_read_bytes, sandbox.order))
    /\ UNCHANGED sandboxFrame

\* an execution at rest: only its tools are followed
EngineAtRest ==
    /\ mode = "pipeline"
    /\ team = <<Members[1]>>
    /\ provider = [a \in AgentIds |-> Profiles[1]]
    /\ execution = [status |-> "pending", initial_input |-> "", llm |-> TRUE,
                    shared_state |-> EmptyJson, current_round |-> 0,
                    tokens_used |-> Zero, error_message |-> FALSE]
    /\ sink = [messages |-> <<>>, msg_seq |-> 0, forwarded |-> <<>>, event_seq |-> 0]
    /\ pc = "idle"
    /\ invocations = 0
    /\ failures = 0
    /\ topic = ""
    /\ target = NoAgent
    /\ state = DefaultState
    /\ agents = <<>>
    /\ own_opinions = [a \in AgentIds |-> <<>>]
    /\ mode_result = "none"
    /\ pl = PlIdle
    /\ db = DbIdle
    /\ rt = RtIdle
    /\ completion_log = <<>>
    /\ instance = NoInstance
    /\ turn = TurnIdle
    /\ workers = NoWorkers
    /\ fsys = SeedFiles
    /\ tasks = NoTasks

SearchInit ==
    /\ EngineAtRest
    /\ \E b \in ReadCeilings, m \in MatchCeilings, f \in FileCeilings, order \in NameOrders :
         sandbox = [disk |-> SearchDisk, calls |-> 0, last |-> <<>>, order |-> order,
                    limits |-> [max_read_bytes |-> b, max_search_matches |-> m,
                                max_search_files |-> f]]

SearchNext == ReadFileLimited \/ SearchFiles \/ SearchContent

SearchSpec == SearchInit /\ [][SearchNext]_vars

(***************************************************************************)
(* Ceilings: what a read or a search leaves out, and whether it says so    *)
(* (SearchSpec).                                                           *)
(***************************************************************************)

\* the regular files below the directory a search was started in, none of
\* them reached through a symlink
FilesBelow(disk, path) ==
    {p \in DOMAIN disk : /\ starts_with(p, WorkspaceRoot \o path.names)
                         /\ disk[p].kind = "file"
                         /\ \A k \in 1..Len(p) : disk[SubSeq(p, 1, k)].kind # "symlink"}

\* what the call would hand back if no ceiling were in its way
Everything(call) ==
    CASE call.tool = "read_file" ->
           {<<i, sandbox.disk[WorkspaceRoot \o call.path.names].content[i]>> :
              i \in 1..Len(sandbox.disk[WorkspaceRoot \o call.path.names].content)}
      [] call.tool = "search_files" ->
           {strip_prefix(p, WorkspaceRoot) :
              p \in {f \in FilesBelow(sandbox.disk, call.path) : file_name(f) \in call.pattern}}
      [] call.tool = "search_content" ->
           UNION {{[path |-> strip_prefix(p, WorkspaceRoot), line |-> i] :
                     i \in {j \in 1..Len(lines(sandbox.disk[p].content)) :
                              \E c \in 1..Len(lines(sandbox.disk[p].content)[j]) :
                                lines(sandbox.disk[p].content)[j][c] = call.pattern}} :
                  p \in FilesBelow(sandbox.disk, call.path)}

\* what the call did hand back
Returned(call) ==
    IF call.tool = "read_file"
    THEN {<<i, call.output.content[i]>> : i \in 1..Len(call.output.content)}
    ELSE {call.output.listed[i] : i \in 1..Len(call.output.listed)}

\* the call succeeded and left something out
LeftOut(call) == call.ok /\ Everything(call) # Returned(call)

\* the result says that it was truncated
SaysTruncated(call) == "truncated" \in call.output.keys /\ call.output.truncated

\* C31: whenever a read or a search leaves out data because of a ceiling, the
\* returned result says that it was truncated
C31_TruncationReported == Called => (LeftOut(LastCall) => SaysTruncated(LastCall))

\* read_file reports truncation exactly when it cut the file; the searches
\* never report anything
ReadFileReportsTruncation ==
    Called =>
      IF LastCall.tool = "read_file"
      THEN LastCall.ok => (LeftOut(LastCall) <=> SaysTruncated(LastCall))
      ELSE ~SaysTruncated(LastCall)

\* a walk stopped at max_files and dropped a file that matched
WalkDroppedFile ==
    /\ Called /\ LastCall.tool = "search_files" /\ LeftOut(LastCall)
    /\ Len(LastCall.output.listed) < sandbox.limits.max_search_matches

\* a list of matches stopped at max_matches
MatchesDropped ==
    /\ Called /\ LastCall.tool = "search_content" /\ LeftOut(LastCall)
    /\ Len(LastCall.output.listed) = sandbox.limits.max_search_matches

\* a search read only the start of a long file, or passed it over
LongFileCut ==
    /\ Called /\ LastCall.tool = "search_content" /\ LeftOut(LastCall)
    /\ Len(LastCall.output.listed) < sandbox.limits.max_search_matches
    /\ sandbox.limits.max_search_files > Cardinality(FilesBelow(sandbox.disk, LastCall.path))

\* a read of a file longer than max_read_bytes says that it was truncated
ReadCutReported ==
    Called /\ LastCall.tool = "read_file" /\ LeftOut(LastCall) /\ SaysTruncated(LastCall)

(***************************************************************************)
(* The status check of run_execution.                                      *)
(***************************************************************************)

\* a step of start_execution or followup_execution, up to the call of run_round
InvocationStep == invocations' = invocations - 1

\* the step leaves the record, the messages, the events and the agents alone
NothingDone == UNCHANGED <<execution, sink, pc, topic, target, modeVars, turnVars>>

\* the step emits one "error" event and nothing else
OnlyErrorEmitted ==
    /\ sink'.forwarded = Append(sink.forwarded, sink'.forwarded[Len(sink'.forwarded)])
    /\ sink'.forwarded[Len(sink'.forwarded)].event_type = "error"
    /\ sink'.messages = sink.messages
    /\ UNCHANGED <<execution, pc, topic, target, modeVars, turnVars>>

\* the step goes on to run_round with the follow-up input, or with the initial one
FollowupRuns == pc' = "run_round" /\ topic' \in FollowupInputs
StartRuns == pc' = "run_round" /\ topic' \notin FollowupInputs

\* start_execution found a pending execution without a topic and parked it
AwaitsInput ==
    /\ execution.status = "pending" /\ execution.initial_input = ""
    /\ execution' = [execution EXCEPT !.status = "paused"]
    /\ pc' = "idle"

\* C32: start_execution on an execution whose stored status is not pending
\* changes nothing; followup_execution runs a round only when the stored status
\* is paused or completed, and otherwise emits one error event and leaves the
\* record unchanged
C32_StatusGate ==
    [][InvocationStep =>
         /\ FollowupRuns => execution.status \in {"paused", "completed"}
         /\ StartRuns => execution.status = "pending"
         /\ pc' # "run_round" =>
              \/ execution.status # "pending" /\ NothingDone
              \/ execution.status \notin {"paused", "completed"} /\ OnlyErrorEmitted
              \/ AwaitsInput]_vars

\* a follow-up was refused on a failed execution: its error event follows the
\* one of the failure
C32_Witness ==
    /\ pc = "idle" /\ execution.status = "failed"
    /\ Len(sink.forwarded) >= 2
    /\ sink.forwarded[Len(sink.forwarded)].event_type = "error"
    /\ sink.forwarded[Len(sink.forwarded) - 1].event_type = "error"

\* a second start_execution was ignored: both calls are spent, one round ran
\* and failed, and nothing came after its error event
StartIgnored ==
    /\ pc = "idle" /\ execution.status = "failed" /\ invocations = 0
    /\ InvocationBudget(mode, team) = MaxInvocations
    /\ Cardinality({i \in 1..Len(sink.forwarded) : sink.forwarded[i].event_type = "error"}) = 1
    /\ Cardinality({i \in 1..Len(sink.forwarded) : sink.forwarded[i].event_type = "status"}) = 1

(***************************************************************************)
(* The stored tokens_used against the persisted messages.                  *)
(***************************************************************************)

\* the i32 token count of a message as a wide number, its high limb below
\* zero when the count is
Signed(count) ==
    IF ~count.neg THEN count.mag
    ELSE IF count.mag[2] = 0 THEN <<0 - count.mag[1], 0>>
    ELSE <<0 - count.mag[1] - 1, Limb - count.mag[2]>>

RECURSIVE MessageTokens(_)
\* the sum of input_tokens + output_tokens over the agent messages of a list
MessageTokens(msgs) ==
    IF msgs = <<>> THEN Zero
    ELSE IF Head(msgs).sender_id = NoAgent THEN MessageTokens(Tail(msgs))
    ELSE WideAdd(WideAdd(Signed(Head(msgs).input_tokens), Signed(Head(msgs).output_tokens)),
                 MessageTokens(Tail(msgs)))

\* C36: whenever no round is in flight, the stored execution's tokens_used
\* equals the sum of input_tokens + output_tokens over all persisted agent
\* messages, also after a round that aborted midway
C36_StoredTokensMatchMessages ==
    pc = "idle" => execution.tokens_used = MessageTokens(sink.messages)

\* the mode puts the token counts in its opinion events, the rounds so far all
\* ran to their save, and no count left the range of an i32 or of a u32
CleanRounds ==
    /\ mode # "pipeline"
    /\ execution.status \in {"pending", "paused", "completed"}
    /\ \A i \in 1..Len(sink.messages) :
         ~sink.messages[i].input_tokens.neg /\ ~sink.messages[i].output_tokens.neg
    /\ IsU32(MessageTokens(sink.messages))
    /\ WideLess(MessageTokens(sink.messages), U32Max)

\* after such rounds the stored count is the sum
StoredTokensMatchAfterCleanRounds ==
    (pc = "idle" /\ CleanRounds) => execution.tokens_used = MessageTokens(sink.messages)

\* a round aborted after an opinion was persisted: the record keeps the count
\* it had before the round
AbortedRoundKeepsOldCount ==
    /\ pc = "idle" /\ execution.status = "failed"
    /\ WideLess(execution.tokens_used, MessageTokens(sink.messages))

\* a Pipeline round ran to its save: the record counts tokens its messages
\* do not carry
PipelineMessagesCarryNoTokens ==
    /\ pc = "idle" /\ mode = "pipeline" /\ execution.status = "completed"
    /\ WideLess(Zero, execution.tokens_used)
    /\ MessageTokens(sink.messages) = Zero

\* two rounds ran to their save, their messages carry tokens
TwoRoundsCounted ==
    /\ pc = "idle" /\ CleanRounds /\ execution.current_round >= 2
    /\ WideLess(Zero, MessageTokens(sink.messages))

(***************************************************************************)
(* Commands on one execution that run side by side                         *)
(* (commands/executions.rs).  start_execution and followup_execution spawn *)
(* a task on the runtime's worker threads, control_execution runs on the   *)
(* caller's thread; each call of the store opens its own connection and    *)
(* is one step.  A command keeps the record it read in a local and writes  *)
(* that local back whole (executions_upsert replaces data_json).  The mode *)
(* is a Pipeline whose turns all succeed.  The events a task emits are     *)
(* counted by its event_seq and not kept.                                  *)
(***************************************************************************)

RoundCommands == {"start_execution", "followup_execution"}

\* the actions of control_execution
ControlActions == {"pause", "resume", "stop", "extend_budget"}

\* the commands that are followed: a start and two more, each begun at any time
RacePlans == {<<"start_execution", second, third>> :
                second \in RoundCommands \cup ControlActions,
                third \in RoundCommands \cup ControlActions}

\* extend_budget without parameters: 50_000 tokens and 5.0 of cost, in units
\* of one such extension
DefaultExtension == [tokens |-> <<0, 50000>>, cost |-> 1]

\* no record has been read yet
NoRecord == [status |-> "none"]

\* a command that has not begun
NewTask(command) ==
    [command |-> command, pc |-> "new", execution |-> NoRecord, ok |-> TRUE,
     during |-> {}, topic |-> "", state |-> DefaultState, agents |-> <<>>, idx |-> 0,
     msg_seq |-> 0, event_seq |-> 0]

\* the task has passed the status check and has not yet saved its round
RoundInFlight(t) ==
    tasks[t].command \in RoundCommands /\ tasks[t].pc \in {"round", "user", "turns"}

\* the store and the window as the emit closure of a task sees them
TaskSink(t) ==
    [messages |-> sink.messages, forwarded |-> <<>>,
     msg_seq |-> tasks[t].msg_seq, event_seq |-> tasks[t].event_seq]

raceFrame ==
    <<config, pc, invocations, failures, topic, target, state, agents, own_opinions,
      mode_result, pl, db, rt, completion_log, instance, turn, workers, fsys, sandbox>>

\* store.executions_get at the head of run_execution and of control_execution
TaskGet(t) ==
    /\ tasks[t].pc = "new"
    /\ tasks' = [tasks EXCEPT ![t].execution = execution, ![t].pc = "got"]
    /\ UNCHANGED <<execution, sink, raceFrame>>

\* run_execution from its status check to the call of run_round: the upsert of
\* the local record and the status event
TaskCheck(t) ==
    /\ tasks[t].pc = "got"
    /\ tasks[t].command \in RoundCommands
    /\ LET local == tasks[t].execution
           followup == tasks[t].command = "followup_execution"
           running == [local EXCEPT !.status = "running"]
           paused == [local EXCEPT !.status = "paused"]
           snk == [TaskSink(t) EXCEPT !.event_seq = 0]
           emitted(event_type, phase) == emit_event(snk, event_type, PlainData(phase, 0), NoAgent)
       IN  IF ~followup /\ local.status # "pending"
           THEN /\ tasks' = [tasks EXCEPT ![t].pc = "done"]
                /\ UNCHANGED <<execution, sink>>
           ELSE IF followup /\ local.status \notin {"paused", "completed"}
           THEN /\ tasks' = [tasks EXCEPT ![t].pc = "done",
                                          ![t].event_seq = emitted("error", "").event_seq]
                /\ UNCHANGED <<execution, sink>>
           ELSE IF ~followup /\ local.initial_input = ""
           THEN /\ execution' = paused
                /\ tasks' = [tasks EXCEPT
                               ![t].pc = "done", ![t].execution = paused,
                               ![t].event_seq = emitted("status", "awaiting_user_input").event_seq]
                /\ UNCHANGED sink
           ELSE /\ execution' = running
                /\ UNCHANGED sink
                /\ tasks' = [tasks EXCEPT
                               ![t].pc = "round", ![t].execution = running,
                               ![t].event_seq = emitted("status", "running").event_seq,
                               ![t].topic = IF followup THEN CHOOSE input \in FollowupInputs : TRUE
                                            ELSE local.initial_input]
    /\ UNCHANGED raceFrame

\* run_round up to its store.execution_messages_next_sequence
TaskRoundBegin(t) ==
    /\ tasks[t].pc = "round"
    /\ tasks' = [tasks EXCEPT
                   ![t].state = [start_new_round(from_value(tasks[t].execution.shared_state))
                                   EXCEPT !.topic = tasks[t].topic],
                   ![t].agents = build_agent_instances(team, NoAgent),
                   ![t].msg_seq = execution_messages_next_sequence(sink.messages),
                   ![t].pc = "user"]
    /\ UNCHANGED <<execution, sink, raceFrame>>

\* run_round: the user message is persisted and emitted, the mode is entered
TaskPersistUser(t) ==
    /\ tasks[t].pc = "user"
    /\ LET user == [sequence |-> tasks[t].msg_seq, round |-> tasks[t].state.round,
                    phase |-> "user", sender_id |-> NoAgent, input_tokens |-> as_i32(Zero),
                    output_tokens |-> as_i32(Zero)]
           snk == emit_event([TaskSink(t) EXCEPT !.messages = Append(@, user)], "user",
                             PlainData("user", tasks[t].state.round), NoAgent)
       IN  /\ sink' = [sink EXCEPT !.messages = snk.messages]
           /\ tasks' = [tasks EXCEPT
                          ![t].msg_seq = @ + 1, ![t].event_seq = snk.event_seq,
                          ![t].state = [@ EXCEPT !.phase = "sequential"], ![t].pc = "turns"]
    /\ UNCHANGED <<execution, raceFrame>>

\* one stage of the Pipeline: the turn returned, its opinion is added to the
\* task's state and persisted by the emit closure
TaskTurn(t) ==
    /\ tasks[t].pc = "turns"
    /\ tasks[t].idx < Len(tasks[t].agents)
    /\ LET stage == tasks[t].idx + 1
           phase == "stage_" \o ToString(stage)
           res == TurnOk(tasks[t].agents[stage], "initial", RawTopic(tasks[t].topic), <<>>, <<>>)
           out == record_turn(tasks[t].state, TaskSink(t), res, phase, TRUE,
                              PlainData(phase, tasks[t].state.round))
       IN  /\ sink' = [sink EXCEPT !.messages = out.sink.messages]
           /\ tasks' = [tasks EXCEPT
                          ![t].state = out.state, ![t].idx = stage,
                          ![t].msg_seq = out.sink.msg_seq, ![t].event_seq = out.sink.event_seq]
    /\ UNCHANGED <<execution, raceFrame>>

\* run_round's save: the local record of the task, as read before the round
\* and changed by it, replaces the stored one
save_execution(local, st) ==
    [local EXCEPT !.status = "completed", !.current_round = st.round,
                  !.tokens_used = st.tokens_used, !.shared_state = to_value(st)]

\* the mode returned: run_round saves the execution and emits "completed"
TaskSave(t) ==
    /\ tasks[t].pc = "turns"
    /\ tasks[t].idx = Len(tasks[t].agents)
    /\ LET st == [tasks[t].state EXCEPT !.phase = "completed"]
           saved == save_execution(tasks[t].execution, st)
       IN  /\ execution' = saved
           /\ tasks' = [tasks EXCEPT
                          ![t].state = st, ![t].execution = saved, ![t].pc = "done",
                          ![t].event_seq = emit_event(TaskSink(t), "status",
                                                      PlainData("completed", 0),
                                                      NoAgent).event_seq]
    /\ UNCHANGED <<sink, raceFrame>>

\* control_execution after its executions_get: the action is applied to the
\* record it read, which is then upserted
control(record, action) ==
    IF action = "pause" /\ record.status = "running"
    THEN [ok |-> TRUE, record |-> [record EXCEPT !.status = "paused"]]
    ELSE IF action = "resume" /\ record.status = "paused"
    THEN [ok |-> TRUE, record |-> [record EXCEPT !.status = "running"]]
    ELSE IF action = "stop" /\ record.status \in {"running", "paused"}
    THEN [ok |-> TRUE, record |-> [record EXCEPT !.status = "completed"]]
    ELSE IF action = "extend_budget"
    THEN [ok |-> TRUE,
          record |-> [record EXCEPT
                        !.tokens_budget = saturating_add(@, DefaultExtension.tokens),
                        !.cost_budget = @ + DefaultExtension.cost]]
    ELSE [ok |-> FALSE, record |-> record]

ControlExecution(t) ==
    /\ tasks[t].pc = "got"
    /\ tasks[t].command \in ControlActions
    /\ LET done == control(tasks[t].execution, tasks[t].command)
       IN  /\ execution' = IF done.ok THEN done.record ELSE execution
           /\ tasks' = [tasks EXCEPT
                          ![t].pc = "done", ![t].ok = done.ok, ![t].execution = done.record,
                          ![t].during = {r \in DOMAIN tasks : RoundInFlight(r)}]
    /\ UNCHANGED <<sink, raceFrame>>

\* create_execution has stored a pending execution with an LLM configuration
RaceInit ==
    /\ mode = "pipeline"
    /\ team = <<Members[1]>>
    /\ provider = [a \in AgentIds |-> Profiles[2]]
    /\ \E input \in InitialInputs :
         execution = [status |-> "pending", initial_input |-> input, llm |-> TRUE,
                      shared_state |-> EmptyJson, current_round |-> 0,
                      tokens_used |-> Zero, error_message |-> FALSE,
                      tokens_budget |-> <<3, 3392>>, cost_budget |-> 2]
    /\ sink = [messages |-> <<>>, msg_seq |-> 0, forwarded |-> <<>>, event_seq |-> 0]
    /\ pc = "idle"
    /\ invocations = 0
    /\ failures = 0
    /\ topic = ""
    /\ target = NoAgent
    /\ state = DefaultState
    /\ agents = <<>>
    /\ own_opinions = [a \in AgentIds |-> <<>>]
    /\ mode_result = "none"
    /\ pl = PlIdle
    /\ db = DbIdle
    /\ rt = RtIdle
    /\ completion_log = <<>>
    /\ instance = NoInstance
    /\ turn = TurnIdle
    /\ workers = NoWorkers
    /\ fsys = SeedFiles
    /\ sandbox = Unmounted
    /\ \E plan \in RacePlans : tasks = [t \in DOMAIN plan |-> NewTask(plan[t])]

RaceNext ==
    \/ \E t \in DOMAIN tasks : TaskGet(t)
    \/ \E t \in DOMAIN tasks : TaskCheck(t)
    \/ \E t \in DOMAIN tasks : TaskRoundBegin(t)
    \/ \E t \in DOMAIN tasks : TaskPersistUser(t)
    \/ \E t \in DOMAIN tasks : TaskTurn(t)
    \/ \E t \in DOMAIN tasks : TaskSave(t)
    \/ \E t \in DOMAIN tasks : ControlExecution(t)

RaceSpec == RaceInit /\ [][RaceNext]_vars
(***************************************************************************)
(* Rounds and control actions that overlap (RaceSpec).                     *)
(***************************************************************************)

\* the rounds in flight
RoundsInFlight == {t \in DOMAIN tasks : RoundInFlight(t)}

\* C33: for one execution at most one round is ever in flight, also when
\* start_execution or followup_execution is invoked twice concurrently
C33_OneRoundInFlight == Cardinality(RoundsInFlight) <= 1

\* two start_execution calls both read "pending" before either stored
\* "running": the topic is persisted twice
TopicPersistedTwice ==
    /\ \A t \in DOMAIN tasks : tasks[t].command = "start_execution" => tasks[t].pc # "new"
    /\ \A t \in DOMAIN tasks : tasks[t].command # "start_execution" => tasks[t].pc = "new"
    /\ Cardinality({i \in 1..Len(sink.messages) : sink.messages[i].phase = "user"}) >= 2

\* a follow-up sent after a pause entered its round while the paused round
\* went on
FollowupBesidePausedRound ==
    /\ Cardinality(RoundsInFlight) = 2
    /\ \E c \in DOMAIN tasks :
         tasks[c].command = "pause" /\ tasks[c].pc = "done" /\ tasks[c].ok
    /\ \E t \in RoundsInFlight : tasks[t].command = "followup_execution"

\* the round of task t saves in this step
Saves(t) == tasks[t].pc = "turns" /\ tasks'[t].pc = "done"

\* a control action succeeded while the round of task t was in flight
ControlledDuring(t) ==
    \E c \in DOMAIN tasks :
       /\ tasks[c].command \in ControlActions
       /\ tasks[c].pc = "done" /\ tasks[c].ok
       /\ t \in tasks[c].during

\* C34: a control_execution action that succeeded while a round was in flight
\* is still reflected in the stored record after the round finishes: the
\* round's final save does not overwrite the status or the budgets
C34_SaveKeepsControl ==
    [][\A t \in DOMAIN tasks :
         (Saves(t) /\ ControlledDuring(t)) =>
            /\ execution'.status = execution.status
            /\ execution'.tokens_budget = execution.tokens_budget
            /\ execution'.cost_budget = execution.cost_budget]_vars

\* the save of a round writes back the budgets and the status the round began
\* with, whatever the record holds by then
SaveRestoresOldRecord ==
    [][\A t \in DOMAIN tasks :
         Saves(t) =>
            /\ execution'.status = "completed"
            /\ execution'.tokens_budget = tasks[t].execution.tokens_budget
            /\ execution'.cost_budget = tasks[t].execution.cost_budget]_vars

\* a round was paused in flight and has saved: the record says completed
PauseLost ==
    \E t, c \in DOMAIN tasks :
       /\ tasks[c].command = "pause" /\ tasks[c].pc = "done" /\ tasks[c].ok
       /\ t \in tasks[c].during /\ tasks[t].pc = "done"
       /\ \A other \in DOMAIN tasks : other \notin {t, c} => tasks[other].pc = "new"
       /\ execution.status = "completed"

\* the budget was extended while a round was in flight, the round has saved:
\* the record holds the budget from before
ExtensionLost ==
    \E t, c \in DOMAIN tasks :
       /\ tasks[c].command = "extend_budget" /\ tasks[c].pc = "done" /\ tasks[c].ok
       /\ t \in tasks[c].during /\ tasks[t].pc = "done"
       /\ \A other \in DOMAIN tasks : other \notin {t, c} => tasks[other].pc = "new"
       /\ execution.tokens_budget = tasks[t].execution.tokens_budget
       /\ WideLess(execution.tokens_budget, tasks[c].execution.tokens_budget)

SequenceTwice ==
    \E i, j \in 1..Len(sink.messages) :
       i < j /\ sink.messages[i].sequence = sink.messages[j].sequence

(***************************************************************************)
(* The tool calls a turn executed and the events that report them          *)
(* (TurnSpec).                                                             *)
(***************************************************************************)
\* how many forwarded events of one type carry the id of a tool call
EventsFor(event_type, id) ==
    Cardinality({j \in 1..Len(sink.forwarded) :
                   /\ sink.forwarded[j].event_type = event_type
                   /\ sink.forwarded[j].tool_call_id = id})

\* every call the Executor was entered for has one tool_call and one tool_result
ExecutedCallsReported ==
    \A i \in 1..Len(Logged("start")) :
       /\ EventsFor("tool_call", Logged("start")[i]) = 1
       /\ EventsFor("tool_result", Logged("start")[i]) = 1

\* C37: once the caller has gone on from the await of a turn, every tool call the
\* Executor executed in the turn is reported by exactly one tool_call event and
\* exactly one tool_result event, also when the turn returned a provider error
\* from a later iteration.
C37_ExecutedCallsReported == turn.pc = "joined" => ExecutedCallsReported

\* the same for the turns that returned Ok and whose previews were all cut on a
\* character boundary
ReportedWhenTurnSucceeds == (TurnJoined /\ pc # "panicked") => ExecutedCallsReported

\* a turn executed a write and a read in two iterations, its third provider call
\* failed, the round has ended with the error: no event names any of its calls
ExecutedCallsUnreported ==
    /\ turn.pc = "joined"
    /\ TurnFailed
    /\ pc = "error"
    /\ Len(Logged("return")) >= 2
    /\ \E i \in 1..Len(turn.traces) : turn.traces[i].call.name = "write_file"
    /\ \A j \in 1..Len(sink.forwarded) :
         sink.forwarded[j].event_type \notin {"tool_call", "tool_result"}

\* a turn that returned Ok after three executed calls: six tool events
ExecutedCallsAllReported ==
    /\ TurnJoined
    /\ pc # "panicked"
    /\ Len(Logged("start")) = 3
    /\ ExecutedCallsReported

(***************************************************************************)
(* Roundtable: the agents it hands back and the response turn of an agent  *)
(* that failed in phase one.                                               *)
(***************************************************************************)
\* the agents run_round passes to the mode
RoundtableInput == build_agent_instances(team, target)

\* run_roundtable returned Ok
RoundtableDone == mode = "roundtable" /\ pc = "save" /\ mode_result = "ok"

\* `returned` holds every agent of `input` once, in whatever order
ExactlyOnce(returned, input) ==
    /\ Len(returned) = Len(input)
    /\ Range(returned) = Range(input)
    /\ Cardinality(Range(returned)) = Len(returned)

\* a peer context without an opinion of agent a from the round in flight
NoOwnOpinion(context, a) ==
    \A k \in 1..Len(context) : ~(context[k].agent_id = a /\ context[k].round = state.round)

\* the response turns of agent a in the round in flight that have completed
ResponseTurns(a) == SelectSeq(Completed("response"), LAMBDA e : e.agent_id = a)

\* the agents whose phase-one turn of the round in flight failed
FailedInPhaseOne == {e.agent_id : e \in {x \in Range(Completed("initial")) : ~x.ok}}

\* C38: run_roundtable returns every input agent exactly once whatever the
\* failures; an agent whose phase-one turn failed is pushed into the response
\* fan-out all the same, has taken exactly one response turn when the mode returns,
\* and the peer context of that turn holds no opinion of its own from this round.
C38_FailedAgentStillResponds ==
    /\ RoundtableDone => ExactlyOnce(agents, RoundtableInput)
    /\ (mode = "roundtable" /\ pc = "rt_response") =>
         /\ ExactlyOnce(agents, RoundtableInput)
         /\ \A a \in FailedInPhaseOne :
              \/ \E t \in rt.tasks :
                   t.agent_id = a /\ t.instr = "response" /\ NoOwnOpinion(t.context, a)
              \/ Len(ResponseTurns(a)) = 1
    /\ PhaseOneDrained =>
         \A a \in FailedInPhaseOne :
            /\ RoundtableDone => Len(ResponseTurns(a)) = 1
            /\ \A j \in 1..Len(ResponseTurns(a)) : NoOwnOpinion(ResponseTurns(a)[j].context, a)

\* a team of at least two: one agent failed in phase one, answered in the response
\* phase with the others' phase-one opinions before it, and is among the agents
\* the mode returned
C38_Witness ==
    /\ RoundtableDone
    /\ Len(agents) >= 2
    /\ \E a \in FailedInPhaseOne :
         /\ a \in Range(agents)
         /\ Len(ResponseTurns(a)) = 1
         /\ ResponseTurns(a)[1].ok
         /\ ResponseTurns(a)[1].context # <<>>
         /\ a \in Range(AgentsOf(Added("response")))
         /\ a \notin Range(AgentsOf(Added("initial")))

(***************************************************************************)
(* The three modes, each called once with an agent list of any length.     *)
(* run_round refuses an empty list before it calls a mode; the functions   *)
(* themselves take any Vec<AgentInstance>, the empty one included.         *)
(***************************************************************************)
\* the agent lists a mode is called with
AgentLists == {SubSeq(Members, 1, n) : n \in 0..(Len(Members) - 1)}

\* a round has begun and its user message is persisted; the mode is entered next
ModeInit ==
    /\ mode \in Modes
    /\ agents \in AgentLists
    /\ team = agents
    /\ provider \in Providers
    /\ execution = [status |-> "running", initial_input |-> "remote", llm |-> TRUE,
                    shared_state |-> EmptyJson, current_round |-> 0,
                    tokens_used |-> Zero, error_message |-> FALSE]
    /\ state = [start_new_round(DefaultState) EXCEPT !.topic = "remote"]
    /\ LET user == [sequence |-> 1, round |-> 1, phase |-> "user", sender_id |-> NoAgent,
                    input_tokens |-> as_i32(Zero), output_tokens |-> as_i32(Zero)]
           s0 == [messages |-> <<user>>, msg_seq |-> 2, forwarded |-> <<>>, event_seq |-> 0]
           s1 == emit_event(s0, "status", PlainData("running", 0), NoAgent)
       IN  sink = emit_event(s1, "user", PlainData("user", 1), NoAgent)
    /\ pc = mode
    /\ invocations = 0
    /\ failures = 0
    /\ topic = "remote"
    /\ target = NoAgent
    /\ own_opinions = [a \in AgentIds |-> <<>>]
    /\ mode_result = "none"
    /\ pl = PlIdle
    /\ db = DbIdle
    /\ rt = RtIdle
    /\ completion_log = <<>>
    /\ instance = NoInstance
    /\ turn = TurnIdle
    /\ workers = NoWorkers
    /\ fsys = SeedFiles
    /\ sandbox = Unmounted
    /\ tasks = NoTasks

ModeNext == Pipeline \/ Debate \/ Roundtable

ModeSpec == ModeInit /\ [][ModeNext]_vars

\* the mode returned Ok(agents)
ModeReturnedOk == pc = "save" /\ mode_result = "ok"

CompletedUnlessEmptyDebate ==
    (ModeReturnedOk /\ ~(mode = "debate" /\ team = <<>>)) => state.phase = "completed"

\* run_debate returned Ok for the empty list: no event, no opinion, the phase is
\* Initializing
EmptyDebateLeftInitializing ==
    /\ mode = "debate"
    /\ team = <<>>
    /\ ModeReturnedOk
    /\ agents = <<>>
    /\ state.phase = "initializing"
    /\ state.opinions = <<>>

\* run_pipeline returned Ok for the empty list, Completed
EmptyPipelineCompleted ==
    mode = "pipeline" /\ team = <<>> /\ ModeReturnedOk /\ state.phase = "completed"

\* run_roundtable returned Ok for the empty list, through both phases, Completed
EmptyRoundtableCompleted ==
    /\ mode = "roundtable" /\ team = <<>> /\ ModeReturnedOk
    /\ state.phase = "completed"
    /\ Len(Events("status", "response")) = 1

\* run_roundtable returned Ok although a turn failed in phase one, Completed
FailedRoundtableCompleted ==
    /\ mode = "roundtable" /\ ModeReturnedOk /\ failures >= 1
    /\ state.phase = "completed"

(***************************************************************************)
(* The sandbox: the workspace directory itself (RootSpec).  The workspace  *)
(* starts with its entries or without any; delete_file is also given the   *)
(* paths that name the workspace directory.                                *)
(***************************************************************************)
\* delete_file with a path that names the workspace directory
DeleteWorkspace ==
    /\ sandbox.calls < MaxCalls
    /\ \E path \in RootPaths :
         sandbox' = called("delete_file", <<path>>, <<>>,
                           delete_file(sandbox.disk, WorkspaceRoot, path))
    /\ UNCHANGED sandboxFrame

\* an execution at rest, its tools rooted at a workspace with or without entries
RootInit ==
    /\ EngineAtRest
    /\ \E disk \in {SeedDisk, EmptyWorkspace} :
         sandbox = [disk |-> disk, calls |-> 0, last |-> <<>>]

RootNext == DeleteWorkspace \/ DeleteFile \/ CreateDirectory \/ WriteFile

RootSpec == RootInit /\ [][RootNext]_vars

\* delete_file was called with a path that names the workspace directory, which
\* was there
RootDeleteCall ==
    /\ Called
    /\ LastCall.tool = "delete_file"
    /\ LastCall.paths[1] \in RootPaths
    /\ WorkspaceRoot \in DOMAIN LastCall.before

\* C40: no tool call deletes the workspace directory itself: delete_file fails
\* for every path that resolves to it, the empty path and ".", also when the
\* workspace has no entries, and the directory is still there after every call.
C40_RootNeverDeleted ==
    /\ RootDeleteCall => (~LastCall.ok /\ sandbox.disk = LastCall.before)
    /\ WorkspaceRoot \in DOMAIN sandbox.disk

\* delete_file on the workspace directory fails exactly while it has entries
RootDeletedOnlyWhenEmpty ==
    /\ RootDeleteCall =>
         /\ LastCall.ok <=> Below(LastCall.before, WorkspaceRoot) = {WorkspaceRoot}
         /\ ~LastCall.ok =>
              /\ LastCall.error = "Refusing to delete non-empty directory"
              /\ sandbox.disk = LastCall.before
    /\ WorkspaceRoot \notin DOMAIN sandbox.disk =>
         /\ LastCall.tool \in {"delete_file", "rename_file"} \/ ~LastCall.ok
         /\ Below(sandbox.disk, WorkspaceRoot) = {}

\* delete_file(".") on a workspace without entries succeeded: the directory is gone
EmptyRootDeleted ==
    /\ RootDeleteCall
    /\ LastCall.paths[1] = Given(FALSE, <<".">>)
    /\ LastCall.ok
    /\ WorkspaceRoot \notin DOMAIN sandbox.disk

\* delete_file("") as the second call on a workspace without entries removes it
RootDeletedBySecondCall ==
    /\ RootDeleteCall
    /\ LastCall.paths[1] = Given(FALSE, <<>>)
    /\ LastCall.ok
    /\ sandbox.calls = 2
    /\ WorkspaceRoot \notin DOMAIN sandbox.disk

\* delete_file("") on a workspace with entries is refused
FullRootRefused ==
    /\ RootDeleteCall
    /\ ~LastCall.ok
    /\ LastCall.error = "Refusing to delete non-empty directory"

\* after the directory is gone a write fails: the root cannot be canonicalized
WriteAfterRootDeleted ==
    /\ Called
    /\ LastCall.tool = "write_file"
    /\ WorkspaceRoot \notin DOMAIN LastCall.before
    /\ ~LastCall.ok

====
